---- MODULE Spec2Model ----
(***************************************************************************)
(* Portfolio-of-Evidence workflow: the in-memory store (server/storage.ts)  *)
(* and the request handlers that write to it (server/routes.ts).            *)
(*                                                                         *)
(* Every Map of MemStorage is a sequence in insertion order; because ids    *)
(* are allocated from a counter that starts at 1 and no record is ever      *)
(* deleted, the record with id i sits at position i.  Fields that no        *)
(* handler branches on (titles, feedback text, file paths, password         *)
(* hashes) are left out of the records.                                     *)
(***************************************************************************)
EXTENDS Integers, Sequences, FiniteSets, TLC

\* ---------------------------------------------------------------- bounds
MaxUsers == 5
MaxAssignments == 2
MaxSubmissions == 2
MaxAssessments == 2
MaxVerifications == 2
MaxUnitId == 2
MaxOps == 4
MaxFailAt == 2
MaxExports == 1
MaxDeactivations == 2
MaxInflight == 2
MaxNewUnits == 1
MaxNewTasks == 1
MaxTime == 2

\* ------------------------------------------------------------- constants
\* An absent (undefined) number in a request body or record.
NoId == 0
\* An absent optional string field of a request body.
Absent == "absent"

Roles == {"trainee", "assessor", "internal_verifier", "external_verifier", "admin"}
SubmissionStatuses == {"pending", "reviewed", "resubmit", "approved", "rejected"}
AssessmentStatuses == {"approved", "resubmit", "rejected"}
VerificationStatuses == {"confirmed", "rejected", "flagged"}

UserIds == 1..MaxUsers
\* The ids of the stored users that have the role.
IdsWithRole(m, role) == {m[i].id : i \in {j \in DOMAIN m : m[j].role = role}}
UnitIds == 1..MaxUnitId

VARIABLES
    usersMap, userIdCounter,
    unitsMap, unitIdCounter,
    tasksMap, taskIdCounter,
    assignmentsMap, assignmentIdCounter,
    submissionsMap, submissionIdCounter,
    submissionFilesMap, submissionFileIdCounter,
    assessmentsMap, assessmentIdCounter,
    verificationsMap, verificationIdCounter,
    notificationsMap, notificationIdCounter,
    activityLogsMap, activityLogIdCounter,
    now,
    res,
    inflight

users == <<usersMap, userIdCounter>>
units == <<unitsMap, unitIdCounter>>
tasks == <<tasksMap, taskIdCounter>>
assignments == <<assignmentsMap, assignmentIdCounter>>
submissions == <<submissionsMap, submissionIdCounter>>
submissionFiles == <<submissionFilesMap, submissionFileIdCounter>>
assessments == <<assessmentsMap, assessmentIdCounter>>
verifications == <<verificationsMap, verificationIdCounter>>
notifications == <<notificationsMap, notificationIdCounter>>
activityLogs == <<activityLogsMap, activityLogIdCounter>>
store == <<users, units, tasks, assignments, submissions, submissionFiles,
           assessments, verifications, notifications, activityLogs>>
\* now is what `new Date()` reads: the clock, in ticks.
vars == <<store, now, res, inflight>>

\* ------------------------------------------------------- record helpers
\* Mutant of Merge: the fields of a win over those of b.
Merge_FirstWins(a, b) ==
    [f \in (DOMAIN a) \cup (DOMAIN b) |-> IF f \in DOMAIN a THEN a[f] ELSE b[f]]

\* Object spread { ...a, ...b }: the fields of b override those of a.
Merge(a, b) ==
    [f \in (DOMAIN a) \cup (DOMAIN b) |-> IF f \in DOMAIN b THEN b[f] ELSE a[f]]

\* ------------------------------------------------------------ the store
\* Map.get: the record, or NoRecord for undefined.
NoRecord == [id |-> NoId]

getUser(id) == IF id \in DOMAIN usersMap THEN usersMap[id] ELSE NoRecord

getUsersByRole(role) == SelectSeq(usersMap, LAMBDA u : u.role = role)

getSubmission(id) == IF id \in DOMAIN submissionsMap THEN submissionsMap[id] ELSE NoRecord

getAssessment(id) == IF id \in DOMAIN assessmentsMap THEN assessmentsMap[id] ELSE NoRecord

getAssignmentsByTrainee(traineeId) ==
    SelectSeq(assignmentsMap, LAMBDA a : a.traineeId = traineeId)

getAssignmentsByAssessor(assessorId) ==
    SelectSeq(assignmentsMap, LAMBDA a : a.assessorId = assessorId)

\* The units and tasks seedInitialData creates.
seedUnits == <<[id |-> 1], [id |-> 2], [id |-> 3], [id |-> 4]>>

seedTasks ==
    <<[id |-> 1, unitId |-> 1], [id |-> 2, unitId |-> 1], [id |-> 3, unitId |-> 2],
      [id |-> 4, unitId |-> 2], [id |-> 5, unitId |-> 3], [id |-> 6, unitId |-> 4]>>

getAllUnits == unitsMap

getTasksByUnit(unitId) == SelectSeq(tasksMap, LAMBDA t : t.unitId = unitId)

\* createUnit: { ...insertUnit, id }.
createUnit(id, insertUnit) == Merge(insertUnit, [id |-> id])

\* createTask: { ...insertTask, id }.
createTask(id, insertTask) == Merge(insertTask, [id |-> id])

getUnit(id) == IF id \in DOMAIN unitsMap THEN unitsMap[id] ELSE NoRecord

getTask(id) == IF id \in DOMAIN tasksMap THEN tasksMap[id] ELSE NoRecord

getAllSubmissions == submissionsMap

getSubmissionsByTrainee_All(traineeId) == submissionsMap

getSubmissionsByTrainee(traineeId) ==
    SelectSeq(submissionsMap, LAMBDA s : s.traineeId = traineeId)

\* getSubmissionsByAssessor: the submissions whose trainee and unit are those
\* of one of the assessor's assignments.
getSubmissionsByAssessor(assessorId) ==
    SelectSeq(submissionsMap,
        LAMBDA s : \E i \in DOMAIN getAssignmentsByAssessor(assessorId) :
            /\ getAssignmentsByAssessor(assessorId)[i].traineeId = s.traineeId
            /\ getAssignmentsByAssessor(assessorId)[i].unitId = s.unitId)

RECURSIVE sortDescending(_, _)
\* Array.prototype.sort with the comparator (a, b) => b[f] - a[f]: the
\* elements by field f, largest first; the sort is stable, so elements of
\* equal f keep the order they had.  The last element goes behind the
\* elements of the sorted rest that are not smaller.
sortDescending(s, f) ==
    IF s = <<>> THEN <<>>
    ELSE LET rest == sortDescending(SubSeq(s, 1, Len(s) - 1), f)
             last == s[Len(s)]
             k == Cardinality({i \in DOMAIN rest : rest[i][f] >= last[f]})
         IN  SubSeq(rest, 1, k) \o <<last>> \o SubSeq(rest, k + 1, Len(rest))

\* getAllActivityLogs: every log entry, sorted by timestamp descending.
getAllActivityLogs == sortDescending(activityLogsMap, "timestamp")

\* getActivityLogsByUser: the user's log entries, sorted by timestamp
\* descending.
getActivityLogsByUser(userId) ==
    sortDescending(SelectSeq(activityLogsMap, LAMBDA l : l.userId = userId),
                   "timestamp")

getNotification(id) ==
    IF id \in DOMAIN notificationsMap THEN notificationsMap[id] ELSE NoRecord

\* getNotificationsByUser: the user's notifications, sorted by createdAt
\* descending.
getNotificationsByUser(userId) ==
    sortDescending(SelectSeq(notificationsMap, LAMBDA n : n.userId = userId),
                   "createdAt")

\* Mutant of updateNotification: the stored record is spread last, so its
\* fields win over the new data.
updateNotification_StoredWins(id, notificationData) ==
    [notificationsMap EXCEPT ![id] = Merge(notificationData, notificationsMap[id])]

\* updateNotification: { ...stored, ...notificationData } written back under
\* id.
updateNotification(id, notificationData) ==
    [notificationsMap EXCEPT ![id] = Merge(notificationsMap[id], notificationData)]

\* Mutant of updateUser: the merged data is written to every user.
updateUser_EveryRecord(id, userData) ==
    [i \in DOMAIN usersMap |-> Merge(usersMap[i], userData)]

\* updateUser: { ...stored, ...userData } written back under id.
updateUser(id, userData) ==
    [usersMap EXCEPT ![id] = Merge(usersMap[id], userData)]

getAssessmentsBySubmission(submissionId) ==
    SelectSeq(assessmentsMap, LAMBDA a : a.submissionId = submissionId)

\* Map.set: the record replaces the one stored under its id, or is added
\* after the others when the id is new.
MapSet(m, record) ==
    IF \E i \in DOMAIN m : m[i].id = record.id
    THEN [i \in DOMAIN m |-> IF m[i].id = record.id THEN record ELSE m[i]]
    ELSE Append(m, record)

\* createUser: the id comes from the counter; isActive defaults to true.
createUser(id, insertUser) ==
    [id |-> id, role |-> insertUser.role, isActive |-> TRUE]

\* createAssignment: { ...insertAssignment, id }.
createAssignment(id, insertAssignment) ==
    Merge(insertAssignment, [id |-> id])

\* Mutant of createSubmission: the spread comes last, so an id in the body
\* replaces the allocated one.
createSubmission_BodyIdWins(id, insertSubmission) ==
    Merge([id |-> id, submissionDate |-> now,
           status |-> IF insertSubmission.status = Absent
                      THEN "pending" ELSE insertSubmission.status],
          [f \in DOMAIN insertSubmission \ {"status"} |-> insertSubmission[f]])

\* createSubmission: { ...insertSubmission, id, submissionDate: new Date(),
\* status: status || 'pending' }.
createSubmission(id, insertSubmission) ==
    Merge(insertSubmission,
          [id |-> id, submissionDate |-> now,
           status |-> IF insertSubmission.status = Absent
                      THEN "pending" ELSE insertSubmission.status])

\* createSubmissionFile: { ...insertFile, id }.
createSubmissionFile(id, insertFile) ==
    Merge(insertFile, [id |-> id])

RECURSIVE createSubmissionFiles(_, _, _, _)
\* The loop of POST /api/submissions over req.files: one createSubmissionFile
\* per uploaded file, in order, starting from map m and counter c.
createSubmissionFiles(m, c, submissionId, files) ==
    IF files = <<>> THEN m
    ELSE createSubmissionFiles(
             Append(m, createSubmissionFile(c,
                 [submissionId |-> submissionId, fileType |-> Head(files).fileType,
                  fileSize |-> Head(files).fileSize])),
             c + 1, submissionId, Tail(files))

\* Mutant of updateSubmission: the update also stamps the record's date anew.
updateSubmission_Restamps(id, submissionData) ==
    [submissionsMap EXCEPT
        ![id] = Merge(Merge(submissionsMap[id], submissionData),
                      [submissionDate |-> now + 1])]

\* Mutant of updateSubmission: the new status is written to every submission.
updateSubmission_EveryRecord(id, submissionData) ==
    [i \in DOMAIN submissionsMap |->
        Merge(submissionsMap[i], [status |-> submissionData.status])]

\* updateSubmission: { ...stored, ...submissionData } written back under id.
updateSubmission(id, submissionData) ==
    [submissionsMap EXCEPT ![id] = Merge(submissionsMap[id], submissionData)]

\* createAssessment: { ...insertAssessment, id, assessmentDate: new Date() }.
createAssessment(id, insertAssessment) ==
    Merge(insertAssessment, [id |-> id, assessmentDate |-> now])

\* createVerification: { ...insertVerification, id }.
createVerification(id, insertVerification) ==
    Merge(insertVerification, [id |-> id])

\* createNotification: { ...insertNotification, id, createdAt: new Date(),
\* isRead: false }.
createNotification(id, insertNotification) ==
    Merge(insertNotification, [id |-> id, createdAt |-> now, isRead |-> FALSE])

\* createActivityLog: { ...insertLog, id, timestamp: new Date() }.
createActivityLog(id, insertLog) ==
    Merge(insertLog, [id |-> id, timestamp |-> now])

RECURSIVE createNotifications(_, _, _)
\* A handler's successive `await storage.createNotification(...)` calls, one
\* per element of ns in order, starting from map m and counter c.
createNotifications(m, c, ns) ==
    IF ns = <<>> THEN m
    ELSE createNotifications(Append(m, createNotification(c, Head(ns))), c + 1, Tail(ns))

\* ----------------------------------------------------------- the reports
\* A quotient of two whole numbers, kept as the pair: the reports divide
\* sums of times by counts.
Quotient(a, b) == [num |-> a, den |-> b]

\* The number 0 as a report gives it where it does not divide.
Zero == Quotient(0, 1)

\* The number of submissions in s that have the status.
StatusCount(s, status) == Len(SelectSeq(s, LAMBDA x : x.status = status))

\* Mutant of TurnaroundAssessment: the last assessment of the submission.
TurnaroundAssessment_Latest(found) == found[Len(found)]

\* `const assessment = assessments[0]`: the assessment the trainee report
\* measures the turnaround of a submission with.
TurnaroundAssessment(found) == found[1]

RECURSIVE traineeTurnaround(_)
\* The loop of getTraineePerformanceReport over the submissions: the pair of
\* totalTurnaround and assessedCount.  Times are in clock ticks; the source
\* divides the milliseconds by those of a day.
traineeTurnaround(subs) ==
    IF subs = <<>> THEN [total |-> 0, count |-> 0]
    ELSE LET rest == traineeTurnaround(SubSeq(subs, 1, Len(subs) - 1))
             submission == subs[Len(subs)]
             as == getAssessmentsBySubmission(submission.id)
         IN  IF Len(as) > 0
             THEN [total |-> rest.total
                       + (TurnaroundAssessment(as).assessmentDate
                              - submission.submissionDate),
                   count |-> rest.count + 1]
             ELSE rest

\* The entry of getTraineePerformanceReport for one trainee.
TraineePerformance(trainee) ==
    LET subs == getSubmissionsByTrainee(trainee.id)
        t == traineeTurnaround(subs)
    IN  [traineeId |-> trainee.id,
         submissionsCount |-> Len(subs),
         approvedCount |-> StatusCount(subs, "approved"),
         rejectedCount |-> StatusCount(subs, "rejected"),
         resubmitCount |-> StatusCount(subs, "resubmit"),
         pendingCount |-> StatusCount(subs, "pending"),
         averageTurnaround |->
             IF t.count > 0 THEN Quotient(t.total, t.count) ELSE Zero]

\* getTraineePerformanceReport: the given users that exist, or every trainee
\* when no ids are given.
getTraineePerformanceReport(specificTraineeIds) ==
    LET trainees ==
            IF Len(specificTraineeIds) # 0
            THEN [i \in DOMAIN specificTraineeIds |-> getUser(specificTraineeIds[i])]
            ELSE getUsersByRole("trainee")
        validTrainees == SelectSeq(trainees, LAMBDA u : u.id # NoId)
    IN  [i \in DOMAIN validTrainees |-> TraineePerformance(validTrainees[i])]

RECURSIVE assessorTurnaround(_)
\* The loop of getAssessorActivityReport over the assessments: totalTurnaround.
assessorTurnaround(as) ==
    IF as = <<>> THEN 0
    ELSE LET assessment == as[Len(as)]
             submission == getSubmission(assessment.submissionId)
         IN  assessorTurnaround(SubSeq(as, 1, Len(as) - 1))
                 + (IF submission.id # NoId
                    THEN assessment.assessmentDate - submission.submissionDate
                    ELSE 0)

\* The entry of getAssessorActivityReport for one assessor.
AssessorActivity(assessor) ==
    LET as == SelectSeq(assessmentsMap, LAMBDA a : a.assessorId = assessor.id)
    IN  [assessorId |-> assessor.id,
         assessmentsCount |-> Len(as),
         approvedCount |-> StatusCount(as, "approved"),
         rejectedCount |-> StatusCount(as, "rejected"),
         resubmitCount |-> StatusCount(as, "resubmit"),
         averageTurnaround |->
             IF Len(as) > 0 THEN Quotient(assessorTurnaround(as), Len(as)) ELSE Zero]

getAssessorActivityReport ==
    [i \in DOMAIN getUsersByRole("assessor") |->
        AssessorActivity(getUsersByRole("assessor")[i])]

\* The entry of getAssessmentOutcomesReport for one task.
AssessmentOutcome(task) ==
    LET subs == SelectSeq(submissionsMap, LAMBDA s : s.taskId = task.id)
    IN  [unitId |-> task.unitId, taskId |-> task.id,
         totalSubmissions |-> Len(subs),
         approvedCount |-> StatusCount(subs, "approved"),
         rejectedCount |-> StatusCount(subs, "rejected"),
         resubmitCount |-> StatusCount(subs, "resubmit"),
         pendingCount |-> StatusCount(subs, "pending")]

RECURSIVE outcomesOfUnits(_)
\* The outer loop of getAssessmentOutcomesReport: for each unit in turn, an
\* entry for each of its tasks.
outcomesOfUnits(us) ==
    IF us = <<>> THEN <<>>
    ELSE LET ts == getTasksByUnit(Head(us).id)
         IN  [i \in DOMAIN ts |-> AssessmentOutcome(ts[i])] \o outcomesOfUnits(Tail(us))

getAssessmentOutcomesReport == outcomesOfUnits(getAllUnits)

RECURSIVE Distinct(_)
\* [...new Set(s)]: the elements of s without repetitions, each where it
\* comes first.
Distinct(s) ==
    IF s = <<>> THEN <<>>
    ELSE LET rest == Distinct(SubSeq(s, 1, Len(s) - 1))
         IN  IF \E i \in DOMAIN rest : rest[i] = s[Len(s)]
             THEN rest ELSE Append(rest, s[Len(s)])

\* --------------------------------------------------------- the handlers
\* A request is made by a caller: the id of the user of its session, or an
\* id no user has (NoId among them) when the request has no session.
\*
\* requireAuth calls next(): req.isAuthenticated().
requireAuth(caller) == getUser(caller).id # NoId

\* Mutant of requireRole: every authenticated caller is let through.
requireRole_AnyRole(caller, roles) == getUser(caller).id # NoId

\* requireRole(roles) calls next(): the request is authenticated and the
\* user's role is one of roles.
requireRole(caller, roles) ==
    getUser(caller).id # NoId /\ getUser(caller).role \in roles

\* The routes of registerRoutes, each with the roles of its requireRole (every
\* role for a route that has requireAuth only).
RouteRoles ==
    [r \in {"GET /api/users/:id", "GET /api/units", "GET /api/units/:id/tasks",
            "GET /api/submissions", "GET /api/submissions/:id", "GET /api/notifications",
            "POST /api/notifications/:id/read", "GET /api/activity-logs/user/:id",
            "GET /api/export-portfolio/:traineeId"} |-> Roles]
    @@ [r \in {"GET /api/users", "POST /api/users/deactivate/:id", "POST /api/units",
               "POST /api/tasks", "POST /api/assignments", "GET /api/activity-logs",
               "GET /api/reports/assessor-activity"} |-> {"admin"}]
    @@ [r \in {"GET /api/assignments", "GET /api/reports/trainee-performance"} |->
           {"admin", "assessor"}]
    @@ [r \in {"POST /api/submissions"} |-> {"trainee"}]
    @@ [r \in {"POST /api/assessments"} |-> {"assessor"}]
    @@ [r \in {"GET /api/verifications"} |->
           {"internal_verifier", "external_verifier", "admin"}]
    @@ [r \in {"POST /api/verifications"} |-> {"internal_verifier", "external_verifier"}]
    @@ [r \in {"GET /api/reports/assessment-outcomes"} |->
           {"admin", "assessor", "internal_verifier", "external_verifier"}]

Routes == DOMAIN RouteRoles

\* The request stops in the route's middleware: requireAuth answers 401 to a
\* request that is not authenticated, requireRole answers 403 to a user whose
\* role is not among the route's; the handler does not run.
Denied(caller, route) ==
    /\ ~(requireAuth(caller) /\ requireRole(caller, RouteRoles[route]))
    /\ res' = [op |-> route, status |-> IF ~requireAuth(caller) THEN 401 ELSE 403]
    /\ UNCHANGED <<store, now, inflight>>

\* Every handler below is the body that runs after the route's middleware
\* (requireAuth, requireRole, validateSchema) has let the request through:
\* the caller has one of the route's roles and the body satisfies the
\* route's insert schema.
\*
\* failAt numbers the handler's createNotification calls from 1; the call
\* numbered failAt rejects (a storage failure), and with failAt =
\* LogWriteFails the createActivityLog call of logActivity does.  MemStorage
\* never rejects, so Spec runs every handler with failAt = 0; SpecFault and
\* SpecLog let it range.
LogWriteFails == -1

\* failAt = FilesReadFails: the getSubmissionFiles call that the response of
\* POST /api/submissions awaits rejects.
FilesReadFails == -2

Notify(ns, failAt) ==
    IF failAt \in 1..Len(ns) THEN SubSeq(ns, 1, failAt - 1) ELSE ns

Threw(ns, failAt) == failAt \in 1..Len(ns)

\* logActivity: createActivityLog with the caller and the action name; when
\* the call rejects, the catch block writes to the console and nothing else
\* happens.
logActivity(userId, action, failAt) ==
    IF failAt = LogWriteFails
    THEN UNCHANGED activityLogs
    ELSE /\ activityLogsMap' = Append(activityLogsMap,
                createActivityLog(activityLogIdCounter,
                                  [userId |-> userId, action |-> action]))
         /\ activityLogIdCounter' = activityLogIdCounter + 1

\* The tail every creating handler shares: the notifications ns are created
\* in order; if one rejects, the catch block answers 500 and neither the
\* later notifications nor the activity log are written; otherwise the
\* activity is logged and the handler answers 201.
NotifyLogRespond(op, caller, action, ns, failAt) ==
    /\ notificationsMap' =
           createNotifications(notificationsMap, notificationIdCounter, Notify(ns, failAt))
    /\ notificationIdCounter' = notificationIdCounter + Len(Notify(ns, failAt))
    /\ IF Threw(ns, failAt)
       THEN /\ UNCHANGED activityLogs
            /\ res' = [op |-> op, status |-> 500]
       ELSE /\ logActivity(caller, action, failAt)
            /\ res' = [op |-> op, status |-> 201]

\* The roles the model lets the user with the given id register with: after
\* the seeded admin come a trainee and an assessor, then verifiers of either
\* kind.  This only bounds the order in which accounts are opened; the
\* specifications draw the role of a registration from it.
RegisteringRoles(id) ==
    IF id = 2 THEN {"trainee"}
    ELSE IF id = 3 THEN {"assessor"}
    ELSE {"internal_verifier", "external_verifier"}

\* The number of records the requests have created so far; the model stops
\* creating at MaxOps of them (for assessments and verifications the
\* specifications say so where they use the handler).
Created ==
    Len(assignmentsMap) + Len(submissionsMap) + Len(assessmentsMap)
        + Len(verificationsMap)

\* Registration stores a new user through createUser.
Register(role) ==
    /\ UNCHANGED <<units, tasks, now>>
    /\ userIdCounter <= MaxUsers
    /\ usersMap' = Append(usersMap, createUser(userIdCounter, [role |-> role]))
    /\ userIdCounter' = userIdCounter + 1
    /\ res' = [op |-> "POST /api/register", status |-> 201]
    /\ UNCHANGED <<assignments, submissions, submissionFiles, assessments,
                   verifications, notifications, activityLogs, inflight>>

\* POST /api/assignments
PostAssignments(caller, body, failAt) ==
    /\ UNCHANGED <<units, tasks, now>>
    /\ requireAuth(caller) /\ requireRole(caller, {"admin"})
    /\ assignmentIdCounter <= MaxAssignments /\ Created < MaxOps
    /\ LET assignment == createAssignment(assignmentIdCounter, body)
           ns == <<[userId |-> assignment.assessorId, type |-> "system",
                    linkedItemId |-> assignment.id]>>
       IN  /\ assignmentsMap' = Append(assignmentsMap, assignment)
           /\ assignmentIdCounter' = assignmentIdCounter + 1
           /\ NotifyLogRespond("POST /api/assignments", caller, "created_assignment",
                               ns, failAt)
    /\ UNCHANGED <<users, submissions, submissionFiles, assessments, verifications,
                   inflight>>

\* POST /api/units
PostUnits(caller, body, failAt) ==
    /\ requireAuth(caller) /\ requireRole(caller, {"admin"})
    /\ unitIdCounter <= Len(seedUnits) + MaxNewUnits
    /\ unitsMap' = Append(unitsMap, createUnit(unitIdCounter, body))
    /\ unitIdCounter' = unitIdCounter + 1
    /\ logActivity(caller, "created_unit", failAt)
    /\ res' = [op |-> "POST /api/units", status |-> 201]
    /\ UNCHANGED <<users, tasks, assignments, submissions, submissionFiles,
                   assessments, verifications, notifications, now, inflight>>

\* POST /api/tasks
PostTasks(caller, body, failAt) ==
    /\ requireAuth(caller) /\ requireRole(caller, {"admin"})
    /\ taskIdCounter <= Len(seedTasks) + MaxNewTasks
    /\ tasksMap' = Append(tasksMap, createTask(taskIdCounter, body))
    /\ taskIdCounter' = taskIdCounter + 1
    /\ logActivity(caller, "created_task", failAt)
    /\ res' = [op |-> "POST /api/tasks", status |-> 201]
    /\ UNCHANGED <<users, units, assignments, submissions, submissionFiles,
                   assessments, verifications, notifications, now, inflight>>

\* The mime types the upload accepts.
allowedTypes ==
    {"application/pdf", "image/jpeg", "image/png", "video/mp4",
     "application/vnd.openxmlformats-officedocument.wordprocessingml.document"}

\* multer's limits.fileSize, in bytes.
fileSizeLimit == 20 * 1024 * 1024

\* upload.array('files', 10): at most this many files in one request.
maxCount == 10

\* Mutant of fileFilter: every type is accepted.
fileFilter_AnyType(file) == TRUE

\* fileFilter: the file's mime type is one of the allowed types.
fileFilter(file) == file.fileType \in allowedTypes

\* Mutant of FileAccepted: a file of exactly the limit is too large.
FileAccepted_ExclusiveLimit(file) ==
    fileFilter(file) /\ file.fileSize < fileSizeLimit

\* multer takes the file: it passes fileFilter and is not larger than
\* limits.fileSize.
FileAccepted(file) ==
    fileFilter(file) /\ file.fileSize <= fileSizeLimit

\* The upload middleware lets the request through to the handler: no more
\* than maxCount files, every file passes fileFilter and none is larger than
\* limits.fileSize.  Otherwise multer passes an error on and the handler
\* does not run.
UploadAccepted(files) ==
    /\ Len(files) <= maxCount
    /\ \A i \in DOMAIN files : FileAccepted(files[i])

\* The error multer passes on for a request it does not let through: that
\* of the first file it does not take, fileFilter being asked before the
\* file's bytes are counted.
UploadError(files) ==
    IF Len(files) > maxCount THEN "LIMIT_UNEXPECTED_FILE"
    ELSE LET first == CHOOSE i \in DOMAIN files :
                          /\ ~FileAccepted(files[i])
                          /\ \A j \in 1..(i - 1) : FileAccepted(files[j])
         IN  IF ~fileFilter(files[first]) THEN "Invalid file type" ELSE "LIMIT_FILE_SIZE"

\* The inline insertSubmissionSchema.parse of POST /api/submissions: unitId
\* and taskId are required, status is optional and must be one of the
\* enum's values.
ValidSubmissionData(body) ==
    /\ body.unitId # NoId
    /\ body.taskId # NoId
    /\ body.status \in SubmissionStatuses \cup {Absent}

\* Mutant of FirstAssignmentForUnit: the last match instead of the first.
FirstAssignmentForUnit_Last(as, unitId) ==
    LET hits == SelectSeq(as, LAMBDA a : a.unitId = unitId)
    IN  IF hits = <<>> THEN NoRecord ELSE hits[Len(hits)]

\* Array.prototype.find: the first element satisfying the test, or NoRecord.
FirstAssignmentForUnit(as, unitId) ==
    LET hits == SelectSeq(as, LAMBDA a : a.unitId = unitId)
    IN  IF hits = <<>> THEN NoRecord ELSE Head(hits)

\* POST /api/submissions, with the files of the multipart request.  The
\* handler calls logActivity before it awaits getSubmissionFiles for the
\* response; when that read rejects, the catch block answers 500.
PostSubmissions(caller, body, files, failAt) ==
    /\ UNCHANGED <<units, tasks, now>>
    /\ requireAuth(caller) /\ requireRole(caller, {"trainee"})
    /\ UNCHANGED inflight
    /\ IF ~UploadAccepted(files)
       THEN /\ res' = [op |-> "POST /api/submissions", status |-> 500,
                       error |-> UploadError(files)]
            /\ UNCHANGED store
       ELSE IF ~ValidSubmissionData(body)
       THEN /\ res' = [op |-> "POST /api/submissions", status |-> 400]
            /\ UNCHANGED store
       ELSE /\ submissionIdCounter <= MaxSubmissions /\ Created < MaxOps
            /\ LET submission ==
                       createSubmission(submissionIdCounter,
                           Merge(body, [traineeId |-> caller, status |-> "pending"]))
                   assignment ==
                       FirstAssignmentForUnit(getAssignmentsByTrainee(caller),
                                              submission.unitId)
                   ns == IF assignment.id # NoId
                         THEN <<[userId |-> assignment.assessorId, type |-> "submission",
                                 linkedItemId |-> submission.id]>>
                         ELSE <<>>
               IN  /\ submissionsMap' = Append(submissionsMap, submission)
                   /\ submissionIdCounter' = submissionIdCounter + 1
                   /\ submissionFilesMap' =
                          createSubmissionFiles(submissionFilesMap,
                              submissionFileIdCounter, submission.id, files)
                   /\ submissionFileIdCounter' = submissionFileIdCounter + Len(files)
                   /\ IF failAt = FilesReadFails
                      THEN /\ notificationsMap' =
                                  createNotifications(notificationsMap,
                                                      notificationIdCounter, ns)
                           /\ notificationIdCounter' = notificationIdCounter + Len(ns)
                           /\ logActivity(caller, "created_submission", 0)
                           /\ res' = [op |-> "POST /api/submissions", status |-> 500]
                      ELSE NotifyLogRespond("POST /api/submissions", caller,
                                            "created_submission", ns, failAt)
            /\ UNCHANGED <<users, assignments, assessments, verifications>>

\* FileUploader's default for maxFileSizeMB, which SubmissionForm also passes.
maxFileSizeMB == 20

\* FileUploader's maxFiles, as SubmissionForm passes it.
maxFiles == 10

RECURSIVE handleFileChange(_, _)
\* FileUploader.handleFileChange with multiple = true: a picked file larger
\* than maxFileSizeMB is skipped, the others are added while fewer than
\* maxFiles are selected.
handleFileChange(selectedFiles, fileList) ==
    IF fileList = <<>> THEN selectedFiles
    ELSE IF Head(fileList).fileSize > maxFileSizeMB * 1024 * 1024
    THEN handleFileChange(selectedFiles, Tail(fileList))
    ELSE IF Len(selectedFiles) < maxFiles
    THEN handleFileChange(Append(selectedFiles, Head(fileList)), Tail(fileList))
    ELSE handleFileChange(selectedFiles, Tail(fileList))

\* SubmissionForm.validateFiles' maxSize.
maxSize == 20 * 1024 * 1024

\* SubmissionForm.validateFiles: at least one file, every file of an allowed
\* type and not larger than maxSize.
validateFiles(files) ==
    /\ Len(files) # 0
    /\ \A i \in DOMAIN files :
           files[i].fileType \in allowedTypes /\ ~(files[i].fileSize > maxSize)

\* SubmissionForm's submit with the files picked in its FileUploader: when
\* validateFiles fails nothing is sent, otherwise the form posts the values
\* and the selected files to /api/submissions.
SubmissionFormSubmit(caller, values, picked) ==
    /\ UNCHANGED <<units, tasks, now>>
    /\ requireAuth(caller) /\ requireRole(caller, {"trainee"})
    /\ LET files == handleFileChange(<<>>, picked)
       IN  IF ~validateFiles(files)
           THEN /\ res' = [op |-> "SubmissionForm.validateFiles", status |-> 0]
                /\ UNCHANGED <<store, inflight>>
           ELSE PostSubmissions(caller, values, files, 0)

\* Mutant of SubmissionStatusFor: a decision that is neither 'approved' nor
\* 'rejected' makes the submission 'reviewed'.
SubmissionStatusFor_Reviewed(status) ==
    IF status = "approved" THEN "approved"
    ELSE IF status = "rejected" THEN "rejected" ELSE "reviewed"

\* Mutant of SubmissionStatusFor: every decision but 'approved' becomes
\* 'resubmit'.
SubmissionStatusFor_CollapseRejected(status) ==
    IF status = "approved" THEN "approved" ELSE "resubmit"

\* The status POST /api/assessments writes to the submission.
SubmissionStatusFor(status) ==
    IF status = "approved" THEN "approved"
    ELSE IF status = "rejected" THEN "rejected" ELSE "resubmit"

\* Mutant of isAssigned: the unit is not compared.
isAssigned_AnyUnit(assessorId, submission) ==
    \E i \in DOMAIN getAssignmentsByAssessor(assessorId) :
        getAssignmentsByAssessor(assessorId)[i].traineeId = submission.traineeId

\* assignments.some(a => a.traineeId === submission.traineeId &&
\*                       a.unitId === submission.unitId)
isAssigned(assessorId, submission) ==
    \E i \in DOMAIN getAssignmentsByAssessor(assessorId) :
        /\ getAssignmentsByAssessor(assessorId)[i].traineeId = submission.traineeId
        /\ getAssignmentsByAssessor(assessorId)[i].unitId = submission.unitId

\* Mutant of AssessmentNotifications: the feedback notification goes to the
\* assessor instead of the trainee.
AssessmentNotifications_ToAssessor(submission, assessment, status) ==
    <<[userId |-> assessment.assessorId, type |-> "assessment",
       linkedItemId |-> assessment.id]>>
    \o (IF status = "approved"
        THEN [i \in DOMAIN getUsersByRole("internal_verifier") |->
                 [userId |-> getUsersByRole("internal_verifier")[i].id,
                  type |-> "verification", linkedItemId |-> assessment.id]]
        ELSE <<>>)

\* Mutant of AssessmentNotifications: only the first internal verifier is
\* notified of an approval.
AssessmentNotifications_FirstVerifierOnly(submission, assessment, status) ==
    <<[userId |-> submission.traineeId, type |-> "assessment",
       linkedItemId |-> assessment.id]>>
    \o (IF status = "approved" /\ getUsersByRole("internal_verifier") # <<>>
        THEN <<[userId |-> getUsersByRole("internal_verifier")[1].id,
                type |-> "verification", linkedItemId |-> assessment.id]>>
        ELSE <<>>)

\* The notifications of POST /api/assessments, in the order it creates them.
AssessmentNotifications(submission, assessment, status) ==
    <<[userId |-> submission.traineeId, type |-> "assessment",
       linkedItemId |-> assessment.id]>>
    \o (IF status = "approved"
        THEN [i \in DOMAIN getUsersByRole("internal_verifier") |->
                 [userId |-> getUsersByRole("internal_verifier")[i].id,
                  type |-> "verification", linkedItemId |-> assessment.id]]
        ELSE <<>>)

\* POST /api/assessments
PostAssessments(caller, body, failAt) ==
    /\ UNCHANGED <<units, tasks, now>>
    /\ requireAuth(caller) /\ requireRole(caller, {"assessor"})
    /\ UNCHANGED inflight
    /\ LET submission == getSubmission(body.submissionId)
       IN  IF submission.id = NoId
           THEN /\ res' = [op |-> "POST /api/assessments", status |-> 404]
                /\ UNCHANGED store
           ELSE IF ~isAssigned(caller, submission)
           THEN /\ res' = [op |-> "POST /api/assessments", status |-> 403]
                /\ UNCHANGED store
           ELSE /\ assessmentIdCounter <= MaxAssessments
                /\ LET assessment ==
                           createAssessment(assessmentIdCounter,
                                            Merge(body, [assessorId |-> caller]))
                   IN  /\ assessmentsMap' = Append(assessmentsMap, assessment)
                       /\ assessmentIdCounter' = assessmentIdCounter + 1
                       /\ submissionsMap' =
                              updateSubmission(body.submissionId,
                                  Merge(submission,
                                        [status |-> SubmissionStatusFor(body.status)]))
                       /\ NotifyLogRespond("POST /api/assessments", caller,
                              "created_assessment",
                              AssessmentNotifications(submission, assessment, body.status),
                              failAt)
                /\ UNCHANGED <<users, assignments, submissionIdCounter, submissionFiles,
                               verifications>>

\* Mutant of VerificationNotifications: the trainee is told of every
\* verification that is not a confirmation.
VerificationNotifications_TraineeUnlessConfirmed(callerRole, assessment, submission, verification, status) ==
    <<[userId |-> assessment.assessorId, type |-> "verification",
       linkedItemId |-> verification.id]>>
    \o (IF status # "confirmed"
        THEN <<[userId |-> submission.traineeId, type |-> "verification",
                linkedItemId |-> verification.id]>>
        ELSE <<>>)
    \o (IF status = "confirmed" /\ callerRole = "internal_verifier"
        THEN [i \in DOMAIN getUsersByRole("external_verifier") |->
                 [userId |-> getUsersByRole("external_verifier")[i].id,
                  type |-> "verification", linkedItemId |-> verification.id]]
        ELSE <<>>)

\* The notifications of POST /api/verifications, in the order it creates them.
VerificationNotifications(callerRole, assessment, submission, verification, status) ==
    <<[userId |-> assessment.assessorId, type |-> "verification",
       linkedItemId |-> verification.id]>>
    \o (IF status = "rejected"
        THEN <<[userId |-> submission.traineeId, type |-> "verification",
                linkedItemId |-> verification.id]>>
        ELSE <<>>)
    \o (IF status = "confirmed" /\ callerRole = "internal_verifier"
        THEN [i \in DOMAIN getUsersByRole("external_verifier") |->
                 [userId |-> getUsersByRole("external_verifier")[i].id,
                  type |-> "verification", linkedItemId |-> verification.id]]
        ELSE <<>>)

\* POST /api/verifications
PostVerifications(caller, body, failAt) ==
    /\ UNCHANGED <<units, tasks, now>>
    /\ requireAuth(caller)
    /\ requireRole(caller, {"internal_verifier", "external_verifier"})
    /\ verificationIdCounter <= MaxVerifications
    /\ LET verification ==
               createVerification(verificationIdCounter,
                   Merge(body,
                         [verifierId |-> caller,
                          verifierType |-> IF getUser(caller).role = "internal_verifier"
                                           THEN "internal" ELSE "external"]))
           assessment == getAssessment(body.assessmentId)
           submission == getSubmission(assessment.submissionId)
       IN  /\ verificationsMap' = Append(verificationsMap, verification)
           /\ verificationIdCounter' = verificationIdCounter + 1
           /\ IF assessment.id = NoId \/ submission.id = NoId
              THEN /\ res' = [op |-> "POST /api/verifications", status |-> 404]
                   /\ UNCHANGED <<notifications, activityLogs>>
              ELSE NotifyLogRespond("POST /api/verifications", caller,
                       "created_verification",
                       VerificationNotifications(getUser(caller).role, assessment,
                                                 submission, verification, body.status),
                       failAt)
    /\ UNCHANGED <<users, assignments, submissions, submissionFiles, assessments,
                   inflight>>

\* GET /api/submissions: the caller's own submissions for a trainee, those of
\* the assigned trainees and units for an assessor, all of them otherwise.
GetSubmissions(caller) ==
    /\ UNCHANGED <<units, tasks, now>>
    /\ requireAuth(caller)
    /\ res' = [op |-> "GET /api/submissions", status |-> 200,
               submissions |->
                   IF getUser(caller).role = "trainee"
                   THEN getSubmissionsByTrainee(caller)
                   ELSE IF getUser(caller).role = "assessor"
                   THEN getSubmissionsByAssessor(caller)
                   ELSE getAllSubmissions]
    /\ UNCHANGED <<store, inflight>>

\* GET /api/submissions/:id
GetSubmissionsById(caller, submissionId) ==
    /\ UNCHANGED <<units, tasks, now>>
    /\ requireAuth(caller)
    /\ LET submission == getSubmission(submissionId)
       IN  res' =
               IF submission.id = NoId
               THEN [op |-> "GET /api/submissions/:id", status |-> 404]
               ELSE IF getUser(caller).role = "trainee" /\ submission.traineeId # caller
               THEN [op |-> "GET /api/submissions/:id", status |-> 403]
               ELSE IF getUser(caller).role = "assessor" /\ ~isAssigned(caller, submission)
               THEN [op |-> "GET /api/submissions/:id", status |-> 403]
               ELSE [op |-> "GET /api/submissions/:id", status |-> 200,
                     submissions |-> <<submission>>]
    /\ UNCHANGED <<store, inflight>>

\* The number of portfolios exported so far.
Exported ==
    Len(SelectSeq(activityLogsMap, LAMBDA l : l.action = "exported_portfolio"))

\* assignments.some(a => a.traineeId === traineeId) of the portfolio export.
isAssignedToTrainee(assessorId, traineeId) ==
    \E i \in DOMAIN getAssignmentsByAssessor(assessorId) :
        getAssignmentsByAssessor(assessorId)[i].traineeId = traineeId

\* generatePortfolioPDF: the document lists every submission of the trainee.
generatePortfolioPDF(traineeId) == getSubmissionsByTrainee(traineeId)

\* GET /api/export-portfolio/:traineeId
GetExportPortfolio(caller, traineeId, failAt) ==
    /\ UNCHANGED <<units, tasks, now>>
    /\ requireAuth(caller)
    /\ UNCHANGED inflight
    /\ IF getUser(caller).role = "trainee" /\ caller # traineeId
       THEN /\ res' = [op |-> "GET /api/export-portfolio/:traineeId", status |-> 403]
            /\ UNCHANGED store
       ELSE IF getUser(caller).role = "assessor" /\ ~isAssignedToTrainee(caller, traineeId)
       THEN /\ res' = [op |-> "GET /api/export-portfolio/:traineeId", status |-> 403]
            /\ UNCHANGED store
       ELSE IF getUser(traineeId).id = NoId
       THEN /\ res' = [op |-> "GET /api/export-portfolio/:traineeId", status |-> 500]
            /\ UNCHANGED store
       ELSE /\ Exported < MaxExports
            /\ logActivity(caller, "exported_portfolio", failAt)
            /\ res' = [op |-> "GET /api/export-portfolio/:traineeId", status |-> 200,
                       submissions |-> generatePortfolioPDF(traineeId)]
            /\ UNCHANGED <<users, assignments, submissions, submissionFiles,
                           assessments, verifications, notifications>>

\* GET /api/users/:id
GetUsersById(caller, userId) ==
    /\ UNCHANGED <<units, tasks, now>>
    /\ requireAuth(caller)
    /\ res' =
           IF getUser(caller).role # "admin" /\ caller # userId
           THEN [op |-> "GET /api/users/:id", status |-> 403]
           ELSE IF getUser(userId).id = NoId
           THEN [op |-> "GET /api/users/:id", status |-> 404]
           ELSE [op |-> "GET /api/users/:id", status |-> 200, user |-> getUser(userId)]
    /\ UNCHANGED <<store, inflight>>

\* GET /api/activity-logs/user/:id
GetActivityLogsByUser(caller, userId) ==
    /\ UNCHANGED <<units, tasks, now>>
    /\ requireAuth(caller)
    /\ res' =
           IF getUser(caller).role # "admin" /\ caller # userId
           THEN [op |-> "GET /api/activity-logs/user/:id", status |-> 403]
           ELSE [op |-> "GET /api/activity-logs/user/:id", status |-> 200,
                 logs |-> getActivityLogsByUser(userId)]
    /\ UNCHANGED <<store, inflight>>

\* GET /api/notifications
GetNotifications(caller) ==
    /\ requireAuth(caller)
    /\ res' = [op |-> "GET /api/notifications", status |-> 200,
               notifications |-> getNotificationsByUser(caller)]
    /\ UNCHANGED <<store, now, inflight>>

\* POST /api/notifications/:id/read
PostNotificationsRead(caller, notificationId) ==
    /\ requireAuth(caller)
    /\ UNCHANGED <<now, inflight>>
    /\ LET notification == getNotification(notificationId)
       IN  IF notification.id = NoId
           THEN /\ res' = [op |-> "POST /api/notifications/:id/read", status |-> 404]
                /\ UNCHANGED store
           ELSE IF notification.userId # caller
           THEN /\ res' = [op |-> "POST /api/notifications/:id/read", status |-> 403]
                /\ UNCHANGED store
           ELSE /\ notificationsMap' =
                       updateNotification(notificationId,
                                          Merge(notification, [isRead |-> TRUE]))
                /\ res' = [op |-> "POST /api/notifications/:id/read", status |-> 200]
                /\ UNCHANGED <<users, units, tasks, assignments, submissions,
                               submissionFiles, assessments, verifications,
                               notificationIdCounter, activityLogs>>

\* GET /api/activity-logs
GetActivityLogs(caller) ==
    /\ requireAuth(caller) /\ requireRole(caller, {"admin"})
    /\ res' = [op |-> "GET /api/activity-logs", status |-> 200,
               logs |-> getAllActivityLogs]
    /\ UNCHANGED <<store, now, inflight>>

\* GET /api/reports/trainee-performance: every trainee for an admin, the
\* trainees of the caller's assignments for an assessor.
GetReportsTraineePerformance(caller) ==
    /\ requireAuth(caller) /\ requireRole(caller, {"admin", "assessor"})
    /\ LET traineeIds ==
               IF getUser(caller).role = "assessor"
               THEN Distinct([i \in DOMAIN getAssignmentsByAssessor(caller) |->
                                 getAssignmentsByAssessor(caller)[i].traineeId])
               ELSE <<>>
       IN  res' = [op |-> "GET /api/reports/trainee-performance", status |-> 200,
                   report |-> IF getUser(caller).role = "assessor" /\ Len(traineeIds) = 0
                              THEN <<>>
                              ELSE getTraineePerformanceReport(traineeIds)]
    /\ UNCHANGED <<store, now, inflight>>

\* GET /api/reports/assessor-activity
GetReportsAssessorActivity(caller) ==
    /\ requireAuth(caller) /\ requireRole(caller, {"admin"})
    /\ res' = [op |-> "GET /api/reports/assessor-activity", status |-> 200,
               report |-> getAssessorActivityReport]
    /\ UNCHANGED <<store, now, inflight>>

\* GET /api/reports/assessment-outcomes
GetReportsAssessmentOutcomes(caller) ==
    /\ requireAuth(caller)
    /\ requireRole(caller, {"admin", "assessor", "internal_verifier", "external_verifier"})
    /\ res' = [op |-> "GET /api/reports/assessment-outcomes", status |-> 200,
               report |-> getAssessmentOutcomesReport]
    /\ UNCHANGED <<store, now, inflight>>

\* Time passes: what `new Date()` reads grows by a tick.
Tick ==
    /\ now < MaxTime
    /\ now' = now + 1
    /\ UNCHANGED <<store, res, inflight>>

\* The number of deactivations carried out so far.
Deactivated ==
    Len(SelectSeq(activityLogsMap, LAMBDA l : l.action = "deactivated_user"))

\* POST /api/users/deactivate/:id
PostUsersDeactivate(caller, userId, failAt) ==
    /\ UNCHANGED <<units, tasks, now>>
    /\ requireAuth(caller) /\ requireRole(caller, {"admin"})
    /\ UNCHANGED inflight
    /\ LET user == getUser(userId)
       IN  IF user.id = NoId
           THEN /\ res' = [op |-> "POST /api/users/deactivate/:id", status |-> 404]
                /\ UNCHANGED store
           ELSE /\ Deactivated < MaxDeactivations
                /\ usersMap' = updateUser(userId, Merge(user, [isActive |-> FALSE]))
                /\ logActivity(caller, "deactivated_user", failAt)
                /\ res' = [op |-> "POST /api/users/deactivate/:id", status |-> 200]
                /\ UNCHANGED <<userIdCounter, assignments, submissions, submissionFiles,
                               assessments, verifications, notifications>>

\* POST /api/submissions as concurrent requests run it.  Every `await` of the
\* handler is a point where another handler may run; each storage method
\* runs without interruption, since no method of MemStorage awaits between
\* taking the id from its counter and Map.set.  inflight holds the handlers
\* that are suspended at an await, with what their closures hold.
\*
\* Up to `await storage.createSubmission(...)`: validation and the create.
SubmissionsBegin(caller, body) ==
    /\ UNCHANGED <<units, tasks, now>>
    /\ requireAuth(caller) /\ requireRole(caller, {"trainee"})
    /\ Len(inflight) < MaxInflight
    /\ ValidSubmissionData(body)
    /\ submissionIdCounter <= MaxSubmissions /\ Created < MaxOps
    /\ LET submission ==
               createSubmission(submissionIdCounter,
                   Merge(body, [traineeId |-> caller, status |-> "pending"]))
       IN  /\ submissionsMap' = MapSet(submissionsMap, submission)
           /\ submissionIdCounter' = submissionIdCounter + 1
           /\ inflight' = Append(inflight,
                  [caller |-> caller, submissionData |-> body,
                   submission |-> submission, assignment |-> NoRecord,
                   pc |-> "createSubmission"])
    /\ UNCHANGED <<users, assignments, submissionFiles, assessments, verifications,
                   notifications, activityLogs, res>>

\* Up to `await storage.getAssignmentsByTrainee(...)`: the request has no
\* files, so the loop is skipped and the assignments are read.
SubmissionsLookup(k) ==
    /\ UNCHANGED <<units, tasks, now>>
    /\ k \in DOMAIN inflight /\ inflight[k].pc = "createSubmission"
    /\ inflight' =
           [inflight EXCEPT
               ![k].assignment =
                   FirstAssignmentForUnit(getAssignmentsByTrainee(inflight[k].caller),
                                          inflight[k].submission.unitId),
               ![k].pc = "getAssignmentsByTrainee"]
    /\ UNCHANGED <<store, res>>

\* Up to `await storage.createNotification(...)`, when an assignment was found.
SubmissionsNotify(k) ==
    /\ UNCHANGED <<units, tasks, now>>
    /\ k \in DOMAIN inflight /\ inflight[k].pc = "getAssignmentsByTrainee"
    /\ inflight[k].assignment.id # NoId
    /\ notificationsMap' =
           MapSet(notificationsMap,
               createNotification(notificationIdCounter,
                   [userId |-> inflight[k].assignment.assessorId, type |-> "submission",
                    linkedItemId |-> inflight[k].submission.id]))
    /\ notificationIdCounter' = notificationIdCounter + 1
    /\ inflight' = [inflight EXCEPT ![k].pc = "createNotification"]
    /\ UNCHANGED <<users, assignments, submissions, submissionFiles, assessments,
                   verifications, activityLogs, res>>

\* The rest of the handler: logActivity and the 201 response (the read of the
\* submission's files that the response awaits changes nothing).
SubmissionsRespond(k) ==
    /\ UNCHANGED <<units, tasks, now>>
    /\ k \in DOMAIN inflight
    /\ \/ inflight[k].pc = "createNotification"
       \/ inflight[k].pc = "getAssignmentsByTrainee" /\ inflight[k].assignment.id = NoId
    /\ logActivity(inflight[k].caller, "created_submission", 0)
    /\ res' = [op |-> "POST /api/submissions", status |-> 201]
    /\ inflight' = [i \in 1..(Len(inflight) - 1) |->
                       IF i < k THEN inflight[i] ELSE inflight[i + 1]]
    /\ UNCHANGED <<users, assignments, submissions, submissionFiles, assessments,
                   verifications, notifications>>

\* Removes the handler at position k from those in flight.
Finish(k) ==
    [i \in 1..(Len(inflight) - 1) |-> IF i < k THEN inflight[i] ELSE inflight[i + 1]]

\* POST /api/assessments as concurrent requests run it, suspended at each
\* `await` with what its closure holds.
\*
\* Up to `await storage.getSubmission(submissionId)`.
AssessmentsBegin(caller, body) ==
    /\ UNCHANGED <<units, tasks, now>>
    /\ requireAuth(caller) /\ requireRole(caller, {"assessor"})
    /\ Len(inflight) < MaxInflight
    /\ inflight' = Append(inflight,
           [caller |-> caller, body |-> body,
            submission |-> getSubmission(body.submissionId),
            isAssigned |-> FALSE, assessment |-> NoRecord, pc |-> "getSubmission"])
    /\ UNCHANGED <<store, res>>

\* Up to `await storage.getAssignmentsByAssessor(...)`, or the 404 response.
AssessmentsCheck(k) ==
    /\ UNCHANGED <<units, tasks, now>>
    /\ k \in DOMAIN inflight /\ inflight[k].pc = "getSubmission"
    /\ IF inflight[k].submission.id = NoId
       THEN /\ res' = [op |-> "POST /api/assessments", status |-> 404]
            /\ inflight' = Finish(k)
       ELSE /\ inflight' =
                   [inflight EXCEPT
                       ![k].isAssigned = isAssigned(inflight[k].caller,
                                                    inflight[k].submission),
                       ![k].pc = "getAssignmentsByAssessor"]
            /\ UNCHANGED res
    /\ UNCHANGED store

\* Up to `await storage.createAssessment(...)`, or the 403 response.
AssessmentsCreate(k) ==
    /\ UNCHANGED <<units, tasks, now>>
    /\ k \in DOMAIN inflight /\ inflight[k].pc = "getAssignmentsByAssessor"
    /\ IF ~inflight[k].isAssigned
       THEN /\ res' = [op |-> "POST /api/assessments", status |-> 403]
            /\ inflight' = Finish(k)
            /\ UNCHANGED store
       ELSE /\ assessmentIdCounter <= MaxAssessments
            /\ LET assessment ==
                       createAssessment(assessmentIdCounter,
                           Merge(inflight[k].body, [assessorId |-> inflight[k].caller]))
               IN  /\ assessmentsMap' = MapSet(assessmentsMap, assessment)
                   /\ assessmentIdCounter' = assessmentIdCounter + 1
                   /\ inflight' = [inflight EXCEPT ![k].assessment = assessment,
                                                   ![k].pc = "createAssessment"]
            /\ UNCHANGED <<users, assignments, submissions, submissionFiles,
                           verifications, notifications, activityLogs, res>>

\* Mutant of AssessmentsUpdate: the write is skipped when a later assessment
\* of the submission is stored.
AssessmentsUpdate_Fenced(k) ==
    /\ UNCHANGED <<units, tasks, now>>
    /\ k \in DOMAIN inflight /\ inflight[k].pc = "createAssessment"
    /\ submissionsMap' =
           IF \E a \in DOMAIN assessmentsMap :
                  /\ assessmentsMap[a].submissionId = inflight[k].body.submissionId
                  /\ assessmentsMap[a].id > inflight[k].assessment.id
           THEN submissionsMap
           ELSE updateSubmission(inflight[k].body.submissionId,
                    Merge(inflight[k].submission,
                          [status |-> SubmissionStatusFor(inflight[k].body.status)]))
    /\ inflight' = [inflight EXCEPT ![k].pc = "updateSubmission"]
    /\ UNCHANGED <<users, assignments, submissionIdCounter, submissionFiles, assessments,
                   verifications, notifications, activityLogs, res>>

\* Up to `await storage.updateSubmission(...)`: the submission read at the
\* start, with the new status, is merged into the stored one.
AssessmentsUpdate(k) ==
    /\ UNCHANGED <<units, tasks, now>>
    /\ k \in DOMAIN inflight /\ inflight[k].pc = "createAssessment"
    /\ submissionsMap' =
           updateSubmission(inflight[k].body.submissionId,
               Merge(inflight[k].submission,
                     [status |-> SubmissionStatusFor(inflight[k].body.status)]))
    /\ inflight' = [inflight EXCEPT ![k].pc = "updateSubmission"]
    /\ UNCHANGED <<users, assignments, submissionIdCounter, submissionFiles, assessments,
                   verifications, notifications, activityLogs, res>>

\* The rest of the handler: the notifications, logActivity and the 201
\* response (the awaits between the notifications are not told apart).
AssessmentsRespond(k) ==
    /\ UNCHANGED <<units, tasks, now>>
    /\ k \in DOMAIN inflight /\ inflight[k].pc = "updateSubmission"
    /\ NotifyLogRespond("POST /api/assessments", inflight[k].caller,
           "created_assessment",
           AssessmentNotifications(inflight[k].submission, inflight[k].assessment,
                                   inflight[k].body.status),
           0)
    /\ inflight' = Finish(k)
    /\ UNCHANGED <<users, assignments, submissions, submissionFiles, assessments,
                   verifications>>

\* ------------------------------------------------------- request bodies
\* The bodies an admin posts: the registered assessor assigned to the
\* registered trainee for each unit, and for unit 1 one body naming another
\* user (the admin) as assessor and one without traineeId, which the insert
\* schema does not require.
AssignmentBodies ==
    [assessorId : IdsWithRole(usersMap, "assessor"),
     traineeId : IdsWithRole(usersMap, "trainee"),
     unitId : UnitIds]
    \cup [assessorId : {1}, traineeId : IdsWithRole(usersMap, "trainee"), unitId : {1}]
    \cup [assessorId : IdsWithRole(usersMap, "assessor"), traineeId : {NoId}, unitId : {1}]

\* The submissionData a trainee posts: every unit, with or without a status
\* of its own, always claiming to come from user 1; one body without unitId
\* and one with a status outside the enum.
SubmissionBodies ==
    [unitId : UnitIds, taskId : {1}, status : {Absent, "approved"}, traineeId : {1}]
    \cup {[unitId |-> NoId, taskId |-> 1, status |-> Absent, traineeId |-> 1],
          [unitId |-> 1, taskId |-> 1, status |-> "invalid", traineeId |-> 1]}

\* The bodies an assessor posts: about any submission or about one that
\* cannot exist, always claiming to come from user 1.
AssessmentBodies ==
    [submissionId : 1..(MaxSubmissions + 1), assessorId : {1},
     status : AssessmentStatuses]

\* The bodies a verifier posts: about the first assessment or about one that
\* cannot exist, always claiming to be an internal verification by user 1.
VerificationBodies ==
    [assessmentId : {1, MaxAssessments + 1}, verifierId : {1},
     verifierType : {"internal"}, status : VerificationStatuses]

\* ----------------------------------------------------------------- Init
\* The constructor: empty maps, counters at 1, then seedInitialData creates
\* the admin user, four units and six tasks (the seeded departments, courses,
\* intakes and modules are not part of this model's state).
Init ==
    /\ usersMap = <<[id |-> 1, role |-> "admin", isActive |-> TRUE]>>
    /\ userIdCounter = 2
    /\ unitsMap = seedUnits /\ unitIdCounter = Len(seedUnits) + 1
    /\ tasksMap = seedTasks /\ taskIdCounter = Len(seedTasks) + 1
    /\ now = 0
    /\ assignmentsMap = <<>> /\ assignmentIdCounter = 1
    /\ submissionsMap = <<>> /\ submissionIdCounter = 1
    /\ submissionFilesMap = <<>> /\ submissionFileIdCounter = 1
    /\ assessmentsMap = <<>> /\ assessmentIdCounter = 1
    /\ verificationsMap = <<>> /\ verificationIdCounter = 1
    /\ notificationsMap = <<>> /\ notificationIdCounter = 1
    /\ activityLogsMap = <<>> /\ activityLogIdCounter = 1
    /\ res = [op |-> "none", status |-> 0]
    /\ inflight = <<>>


\* ----------------------------------------------------- specifications
\* Submission and assessment: accounts, assignments, submissions and
\* assessments, over MemStorage (no storage call rejects).
Next ==
    \/ \E role \in RegisteringRoles(userIdCounter) : Register(role)
    \/ \E caller \in UserIds, body \in AssignmentBodies : PostAssignments(caller, body, 0)
    \/ \E caller \in UserIds, body \in SubmissionBodies : PostSubmissions(caller, body, <<>>, 0)
    \/ \E caller \in UserIds, body \in AssessmentBodies :
           PostAssessments(caller, body, 0) /\ (Created < MaxOps \/ UNCHANGED assessments)

Spec == Init /\ [][Next]_vars

\* The whole workflow: the above and verification.
NextVerify ==
    \/ \E role \in RegisteringRoles(userIdCounter) : Register(role)
    \/ \E caller \in UserIds, body \in AssignmentBodies : PostAssignments(caller, body, 0)
    \/ \E caller \in UserIds, body \in SubmissionBodies : PostSubmissions(caller, body, <<>>, 0)
    \/ \E caller \in UserIds, body \in AssessmentBodies :
           PostAssessments(caller, body, 0) /\ (Created < MaxOps \/ UNCHANGED assessments)
    \/ \E caller \in UserIds, body \in VerificationBodies :
           Created < MaxOps /\ verificationsMap = <<>> /\ PostVerifications(caller, body, 0)

SpecVerify == Init /\ [][NextVerify]_vars

\* The bodies posted while createNotification may reject: those about unit 1,
\* without a status of the client's own in a submission, and with a final
\* decision in an assessment.
FaultAssignmentBodies == {b \in AssignmentBodies : b.unitId = 1}

FaultSubmissionBodies ==
    {b \in SubmissionBodies : b.unitId = 1 /\ b.status # "approved"}

FaultAssessmentBodies == {b \in AssessmentBodies : b.status # "resubmit"}

\* The whole workflow over a storage whose createNotification may reject:
\* within one request, the call numbered failAt does (none for failAt = 0).
NextFault ==
    \/ \E role \in RegisteringRoles(userIdCounter) : Register(role)
    \/ \E caller \in UserIds, body \in FaultAssignmentBodies, failAt \in 0..MaxFailAt :
           PostAssignments(caller, body, failAt)
    \/ \E caller \in UserIds, body \in FaultSubmissionBodies, failAt \in 0..MaxFailAt :
           PostSubmissions(caller, body, <<>>, failAt)
    \/ \E caller \in UserIds, body \in FaultAssessmentBodies, failAt \in 0..MaxFailAt :
           PostAssessments(caller, body, failAt)
               /\ (Created < MaxOps \/ UNCHANGED assessments)
    \/ \E caller \in UserIds, body \in VerificationBodies, failAt \in 0..MaxFailAt :
           Created < MaxOps /\ verificationsMap = <<>>
               /\ PostVerifications(caller, body, failAt)

SpecFault == Init /\ [][NextFault]_vars

\* The submissionData posted in the reading workflow: every unit, no status
\* of the client's own.
ReadSubmissionBodies == {b \in SubmissionBodies : b.status = Absent /\ b.unitId # NoId}

\* The assignments made in the reading workflow: the registered assessor to
\* the registered trainee, for each unit.
ReadAssignmentBodies ==
    {b \in AssignmentBodies : b.assessorId # 1 /\ b.traineeId # NoId}

\* Reading: accounts (the admin, a trainee, an assessor and one verifier),
\* assignments and submissions, and the routes that return submissions.
NextRead ==
    \/ \E role \in RegisteringRoles(userIdCounter) : userIdCounter < MaxUsers /\ Register(role)
    \/ \E caller \in UserIds, body \in ReadAssignmentBodies :
           PostAssignments(caller, body, 0)
    \/ \E caller \in UserIds, body \in ReadSubmissionBodies :
           PostSubmissions(caller, body, <<>>, 0)
    \/ \E caller \in UserIds : GetSubmissions(caller)
    \/ \E caller \in UserIds, submissionId \in 1..(MaxSubmissions + 1) :
           GetSubmissionsById(caller, submissionId)
    \/ \E caller \in UserIds, traineeId \in UserIds : GetExportPortfolio(caller, traineeId, 0)

SpecRead == Init /\ [][NextRead]_vars

\* The bodies of the repeated-verification workflow: one assignment, one
\* submission for it and a final decision on that submission.
ReverifyAssignmentBodies == {b \in ReadAssignmentBodies : b.unitId = 1}

ReverifySubmissionBodies == {b \in ReadSubmissionBodies : b.unitId = 1}

ReverifyAssessmentBodies ==
    {b \in AssessmentBodies : b.submissionId = 1 /\ b.status # "resubmit"}

\* Repeated verification: one submission is assessed and then verified, up
\* to MaxVerifications times, by verifiers of either kind.
NextReverify ==
    \/ \E role \in RegisteringRoles(userIdCounter) : Register(role)
    \/ \E caller \in UserIds, body \in ReverifyAssignmentBodies :
           PostAssignments(caller, body, 0)
    \/ \E caller \in UserIds, body \in ReverifySubmissionBodies :
           PostSubmissions(caller, body, <<>>, 0)
    \/ \E caller \in UserIds, body \in ReverifyAssessmentBodies :
           PostAssessments(caller, body, 0) /\ (Created < MaxOps \/ UNCHANGED assessments)
    \/ \E caller \in UserIds, body \in VerificationBodies :
           PostVerifications(caller, body, 0)

SpecReverify == Init /\ [][NextReverify]_vars

\* The submissionData of the concurrent requests: as in the reading workflow,
\* with or without an id of the client's own.
ConcurrentSubmissionBodies ==
    ReadSubmissionBodies \cup {Merge(b, [id |-> 1]) : b \in ReadSubmissionBodies}

\* Concurrent submissions: up to MaxInflight POST /api/submissions handlers
\* run interleaved with each other, with registrations and with assignments.
NextConcurrent ==
    \/ \E role \in RegisteringRoles(userIdCounter) : userIdCounter < MaxUsers /\ Register(role)
    \/ \E caller \in UserIds, body \in ReadAssignmentBodies :
           PostAssignments(caller, body, 0)
    \/ \E caller \in UserIds, body \in ConcurrentSubmissionBodies :
           SubmissionsBegin(caller, body)
    \/ \E k \in 1..MaxInflight : SubmissionsLookup(k)
    \/ \E k \in 1..MaxInflight : SubmissionsNotify(k)
    \/ \E k \in 1..MaxInflight : SubmissionsRespond(k)

SpecConcurrent == Init /\ [][NextConcurrent]_vars

\* The files of an upload: a small PDF, PDFs of exactly the size limit and of
\* one byte more, and a file of a type that is not allowed.
UploadFiles ==
    [name : {"pdf"}, fileType : {"application/pdf"},
     fileSize : {1, fileSizeLimit, fileSizeLimit + 1}]
    \cup [name : {"exe"}, fileType : {"application/x-msdownload"}, fileSize : {1}]

\* The file lists of a request: none, each single file, and a small PDF
\* followed by a file that is not taken.
UploadFileLists ==
    {<<>>} \cup {<<f>> : f \in UploadFiles}
    \cup {<<g, f>> : g \in {h \in UploadFiles : h.fileSize = 1 /\ h.name = "pdf"},
                     f \in {h \in UploadFiles : ~FileAccepted(h)}}

\* The submissionData of an upload: a stored unit or the id after the last
\* one, a stored task or the id after the last one.
UploadSubmissionBodies ==
    [unitId : {1, Len(unitsMap) + 1}, taskId : {1, Len(tasksMap) + 1},
     status : {Absent}, traineeId : {1}]

\* Uploading: a trainee posts submissions with files, directly or through
\* the submission form.
NextUpload ==
    \/ \E role \in RegisteringRoles(userIdCounter) : Register(role)
    \/ \E caller \in UserIds, body \in UploadSubmissionBodies, files \in UploadFileLists :
           PostSubmissions(caller, body, files, 0)
    \/ \E caller \in UserIds, values \in UploadSubmissionBodies, picked \in UploadFileLists :
           SubmissionFormSubmit(caller, values, picked)

SpecUpload == Init /\ [][NextUpload]_vars

\* The user ids a request names: those of the accounts that can exist and
\* one that never does.
TargetUserIds == 1..(MaxUsers + 1)

\* Accounts: registration, deactivation and the self-or-admin reads.
NextUsers ==
    \/ \E role \in RegisteringRoles(userIdCounter) : Register(role)
    \/ \E caller \in UserIds, userId \in TargetUserIds : PostUsersDeactivate(caller, userId, 0)
    \/ \E caller \in UserIds, userId \in TargetUserIds : GetUsersById(caller, userId)
    \/ \E caller \in UserIds, userId \in TargetUserIds :
           GetActivityLogsByUser(caller, userId)

SpecUsers == Init /\ [][NextUsers]_vars

\* Who makes a request: a request without a session (NoId) or the user of
\* its session.
Callers == {NoId} \cup DOMAIN usersMap

\* The bodies an admin posts to create a unit or a task.
UnitBodies == [courseId : {1}]

TaskBodies == [unitId : {1}]

\* The one verification posted in the access workflow: a confirmation of the
\* first assessment.
DeniedVerificationBodies ==
    {b \in VerificationBodies : b.assessmentId = 1 /\ b.status = "confirmed"}

\* Access control: every writing route, called by anyone with or without a
\* session, and every route's middleware turning a request away.
NextDenied ==
    \/ \E role \in RegisteringRoles(userIdCounter) :
           userIdCounter < MaxUsers /\ activityLogsMap = <<>> /\ Register(role)
    \/ \E caller \in Callers, body \in UnitBodies :
           activityLogsMap = <<>> /\ PostUnits(caller, body, 0)
    \/ \E caller \in Callers, body \in TaskBodies :
           Created = 0 /\ Len(unitsMap) > Len(seedUnits) /\ PostTasks(caller, body, 0)
    \/ \E caller \in Callers, body \in ReverifyAssignmentBodies :
           PostAssignments(caller, body, 0)
    \/ \E caller \in Callers, body \in ReverifySubmissionBodies :
           PostSubmissions(caller, body, <<>>, 0)
    \/ \E caller \in Callers, body \in {b \in ReverifyAssessmentBodies : b.status = "approved"} :
           PostAssessments(caller, body, 0) /\ (Created < MaxOps \/ UNCHANGED assessments)
    \/ \E caller \in Callers, body \in DeniedVerificationBodies :
           verificationsMap = <<>> /\ PostVerifications(caller, body, 0)
    \/ \E caller \in Callers, userId \in {MaxUsers - 1} :
           Created = MaxOps /\ PostUsersDeactivate(caller, userId, 0)
    \/ \E caller \in Callers, route \in Routes : Denied(caller, route)

SpecDenied == Init /\ [][NextDenied]_vars

\* The submissionData of the reporting workflow: unit 1 and its first task,
\* with no status or with a status of the client's own.
ReportSubmissionBodies ==
    [unitId : {1}, taskId : {1}, status : {Absent, "reviewed"}, traineeId : {1}]

\* The assessments of the reporting workflow: every decision, on a submission
\* that can exist.
ReportAssessmentBodies == {b \in AssessmentBodies : b.submissionId <= MaxSubmissions}

\* Reporting: a trainee submits, an assessor assesses, time passes and the
\* reports are read.
NextReport ==
    \/ \E role \in RegisteringRoles(userIdCounter) : userIdCounter < MaxUsers - 1 /\ Register(role)
    \/ \E caller \in UserIds, body \in ReverifyAssignmentBodies :
           PostAssignments(caller, body, 0)
    \/ \E caller \in UserIds, body \in ReportSubmissionBodies :
           PostSubmissions(caller, body, <<>>, 0)
    \/ \E caller \in UserIds, body \in ReportAssessmentBodies :
           PostAssessments(caller, body, 0)
    \/ Tick
    \/ \E caller \in UserIds : GetReportsTraineePerformance(caller)
    \/ \E caller \in UserIds : GetReportsAssessorActivity(caller)
    \/ \E caller \in UserIds : GetReportsAssessmentOutcomes(caller)

SpecReport == Init /\ [][NextReport]_vars

\* The notification ids a request names: those that can be stored in the
\* notification workflow (one for each assignment and submission) and one
\* more.
NotificationIds == 1..(MaxOps + 1)

\* Notifications and logs: an assignment and a submission create them, time
\* passes, and users read their notifications, mark them read and read the
\* activity log.
NextNotify ==
    \/ \E role \in RegisteringRoles(userIdCounter) : userIdCounter < MaxUsers - 1 /\ Register(role)
    \/ \E caller \in UserIds, body \in ReverifyAssignmentBodies :
           PostAssignments(caller, body, 0)
    \/ \E caller \in UserIds, body \in ReverifySubmissionBodies :
           PostSubmissions(caller, body, <<>>, 0)
    \/ Tick
    \/ \E caller \in UserIds : GetNotifications(caller)
    \/ \E caller \in UserIds, notificationId \in NotificationIds :
           PostNotificationsRead(caller, notificationId)
    \/ \E caller \in UserIds : GetActivityLogs(caller)
    \/ \E caller \in UserIds, userId \in UserIds : GetActivityLogsByUser(caller, userId)

SpecNotify == Init /\ [][NextNotify]_vars

\* The file lists of the record-keeping workflow: no file or one small PDF.
AppendFileLists == {fs \in UploadFileLists : Len(fs) <= 1 /\ UploadAccepted(fs)}

\* Record keeping: every route that writes, on one assignment, submissions
\* with or without a file, decisions on the first submission and
\* verifications of the first assessment or of one that is not stored.
NextAppend ==
    \/ \E role \in RegisteringRoles(userIdCounter) : userIdCounter < MaxUsers /\ Register(role)
    \/ \E caller \in UserIds, body \in ReverifyAssignmentBodies :
           PostAssignments(caller, body, 0)
    \/ \E caller \in UserIds, body \in ReverifySubmissionBodies, files \in AppendFileLists :
           PostSubmissions(caller, body, files, 0)
    \/ \E caller \in UserIds, body \in ReverifyAssessmentBodies :
           PostAssessments(caller, body, 0) /\ (Created < MaxOps \/ UNCHANGED assessments)
    \/ \E caller \in UserIds, body \in VerificationBodies :
           Created < MaxOps /\ verificationsMap = <<>> /\ PostVerifications(caller, body, 0)
    \/ \E caller \in UserIds, userId \in {MaxUsers - 1} :
           Deactivated = 0 /\ PostUsersDeactivate(caller, userId, 0)
    \/ \E caller \in UserIds, notificationId \in {1} :
           PostNotificationsRead(caller, notificationId)

SpecAppend == Init /\ [][NextAppend]_vars

\* The order in which the accounts of the isolation workflow are opened: two
\* trainees after the seeded admin, then an assessor.
IsolationRegisteringRoles(id) ==
    IF id \in {2, 3} THEN {"trainee"} ELSE {"assessor"}

\* The one assignment of the isolation workflow: the assessor to either
\* trainee, for the first unit.
IsolationAssignmentBodies ==
    [assessorId : IdsWithRole(usersMap, "assessor"),
     traineeId : IdsWithRole(usersMap, "trainee"),
     unitId : {1}]

\* Isolation: two trainees and an assessor, the submissions of each trainee,
\* and the three routes a trainee reads submissions through, called by
\* everyone about every submission and every trainee.
NextIsolation ==
    \/ \E role \in IsolationRegisteringRoles(userIdCounter) :
           userIdCounter < MaxUsers /\ Register(role)
    \/ \E caller \in UserIds, body \in IsolationAssignmentBodies :
           assignmentsMap = <<>> /\ PostAssignments(caller, body, 0)
    \/ \E caller \in UserIds, body \in ReadSubmissionBodies :
           PostSubmissions(caller, body, <<>>, 0)
    \/ \E caller \in UserIds : GetSubmissions(caller)
    \/ \E caller \in UserIds, submissionId \in 1..(MaxSubmissions + 1) :
           GetSubmissionsById(caller, submissionId)
    \/ \E caller \in UserIds, traineeId \in UserIds : GetExportPortfolio(caller, traineeId, 0)

SpecIsolation == Init /\ [][NextIsolation]_vars

\* The storage failures of the logging workflow: none or the
\* createActivityLog call; for a submission also the createNotification call
\* or the read of the files.
LogFaults == {0, LogWriteFails}

SubmissionLogFaults == {0, 1, LogWriteFails, FilesReadFails}

\* The submissionData of the logging workflow: a submission for unit 1 and
\* one without unitId.
LogSubmissionBodies ==
    {b \in SubmissionBodies : b.status = Absent /\ b.unitId \in {1, NoId}}

\* The verifications of the logging workflow: a confirmation of the first
\* assessment or of one that cannot exist.
LogVerificationBodies == {b \in VerificationBodies : b.status = "confirmed"}

\* The routes that call logActivity.
LogRoutes ==
    {"POST /api/users/deactivate/:id", "POST /api/units", "POST /api/tasks",
     "POST /api/assignments", "POST /api/submissions", "POST /api/assessments",
     "POST /api/verifications", "GET /api/export-portfolio/:traineeId"}

\* Logging: the eight routes that call logActivity, run once each in the
\* order of the workflow over a storage whose calls may reject, and, once
\* the workflow has run, their middleware turning a request away.
NextLog ==
    \/ \E role \in RegisteringRoles(userIdCounter) \ {"external_verifier"} :
           /\ userIdCounter < MaxUsers /\ Len(unitsMap) = Len(seedUnits)
           /\ Register(role)
    \/ \E caller \in UserIds, body \in UnitBodies, failAt \in LogFaults :
           userIdCounter = MaxUsers /\ PostUnits(caller, body, failAt)
    \/ \E caller \in UserIds, body \in TaskBodies, failAt \in LogFaults :
           Len(unitsMap) > Len(seedUnits) /\ PostTasks(caller, body, failAt)
    \/ \E caller \in UserIds, body \in ReverifyAssignmentBodies, failAt \in LogFaults :
           /\ Len(tasksMap) > Len(seedTasks) /\ assignmentsMap = <<>>
           /\ PostAssignments(caller, body, failAt)
    \/ \E caller \in UserIds, body \in LogSubmissionBodies,
          failAt \in SubmissionLogFaults :
           /\ assignmentsMap # <<>> /\ submissionsMap = <<>>
           /\ PostSubmissions(caller, body, <<>>, failAt)
    \/ \E caller \in UserIds, body \in {b \in AssessmentBodies : b.status = "approved"},
          failAt \in LogFaults :
           /\ submissionsMap # <<>> /\ assessmentsMap = <<>>
           /\ PostAssessments(caller, body, failAt)
    \/ \E caller \in UserIds, body \in LogVerificationBodies, failAt \in LogFaults :
           /\ assessmentsMap # <<>> /\ verificationsMap = <<>>
           /\ PostVerifications(caller, body, failAt)
    \/ \E caller \in UserIds, userId \in {MaxUsers - 1, MaxUsers + 1}, failAt \in LogFaults :
           /\ verificationsMap # <<>> /\ usersMap[MaxUsers - 1].isActive
           /\ PostUsersDeactivate(caller, userId, failAt)
    \/ \E caller \in UserIds, traineeId \in UserIds, failAt \in LogFaults :
           verificationsMap # <<>> /\ GetExportPortfolio(caller, traineeId, failAt)
    \/ \E caller \in Callers, route \in LogRoutes :
           verificationsMap # <<>> /\ Denied(caller, route)

SpecLog == Init /\ [][NextLog]_vars

\* The assessments of the concurrent requests: every decision, on the first
\* submission or on one that cannot exist.
ConcurrentAssessmentBodies ==
    {b \in AssessmentBodies : b.submissionId \in {1, MaxSubmissions + 1}}

\* Concurrent assessments: up to MaxInflight POST /api/assessments handlers
\* run interleaved with each other, after a trainee and an assessor have
\* registered, an assignment was made and a submission posted.
NextConcurrentAssess ==
    \/ \E role \in RegisteringRoles(userIdCounter) :
           userIdCounter < MaxUsers - 1 /\ Register(role)
    \/ \E caller \in UserIds, body \in ReverifyAssignmentBodies :
           assignmentsMap = <<>> /\ PostAssignments(caller, body, 0)
    \/ \E caller \in UserIds, body \in ReverifySubmissionBodies :
           submissionsMap = <<>> /\ PostSubmissions(caller, body, <<>>, 0)
    \/ \E caller \in UserIds, body \in ConcurrentAssessmentBodies :
           AssessmentsBegin(caller, body)
    \/ \E k \in 1..MaxInflight : AssessmentsCheck(k)
    \/ \E k \in 1..MaxInflight : AssessmentsCreate(k)
    \/ \E k \in 1..MaxInflight : AssessmentsUpdate(k)
    \/ \E k \in 1..MaxInflight : AssessmentsRespond(k)

SpecConcurrentAssess == Init /\ [][NextConcurrentAssess]_vars








\* ------------------------------------------------------------- claims
\* What a step added to the notifications.
NewNotifications ==
    SubSeq(notificationsMap', Len(notificationsMap) + 1, Len(notificationsMap'))

\* The number of entries of a sequence that satisfy the test.
Count(s, Test(_)) == Len(SelectSeq(s, Test))

\* The role of the user with the id; "none" when there is no such user.
RoleOf(id) == IF id \in DOMAIN usersMap THEN usersMap[id].role ELSE "none"

\* The largest id among the assessments of the submission, NoId if none.
LatestAssessmentId(submissionId) ==
    LET ids == {assessmentsMap[i].id :
                    i \in {j \in DOMAIN assessmentsMap :
                               assessmentsMap[j].submissionId = submissionId}}
    IN  IF ids = {} THEN NoId ELSE CHOOSE m \in ids : \A n \in ids : n <= m

\* An assignment of the assessor to the submission's trainee and unit exists.
HasAssignment(assessorId, submission) ==
    \E i \in DOMAIN assignmentsMap :
        /\ assignmentsMap[i].assessorId = assessorId
        /\ assignmentsMap[i].traineeId = submission.traineeId
        /\ assignmentsMap[i].unitId = submission.unitId

\* C1: in every reachable state each submission's status is the status of
\* its assessment with the largest id, or 'pending' when it has none.
C1_StatusMirrorsLatestAssessment ==
    \A s \in DOMAIN submissionsMap :
        submissionsMap[s].status =
            IF LatestAssessmentId(submissionsMap[s].id) = NoId
            THEN "pending"
            ELSE assessmentsMap[LatestAssessmentId(submissionsMap[s].id)].status

\* C1 witness: a submission assessed twice, first 'rejected' and then with
\* another decision.
C1_Witness ==
    \E s \in DOMAIN submissionsMap :
        /\ Len(getAssessmentsBySubmission(s)) = 2
        /\ getAssessmentsBySubmission(s)[1].status = "rejected"
        /\ getAssessmentsBySubmission(s)[2].status # "rejected"

\* C2: POST /assessments by an assessor without an assignment for the
\* submission's trainee and unit answers 403 and leaves assessments,
\* notifications and submissions as they were; and every stored assessment
\* has an assignment of its assessor to its submission's trainee and unit.
C2_UnassignedAssessorForbidden ==
    /\ [][\A caller \in UserIds, body \in AssessmentBodies :
            (/\ PostAssessments(caller, body, 0)
             /\ body.submissionId \in DOMAIN submissionsMap
             /\ ~HasAssignment(caller, submissionsMap[body.submissionId]))
            => (/\ res' = [op |-> "POST /api/assessments", status |-> 403]
                /\ UNCHANGED <<assessments, notifications, submissions>>)]_vars
    /\ [](\A a \in DOMAIN assessmentsMap :
            /\ assessmentsMap[a].submissionId \in DOMAIN submissionsMap
            /\ HasAssignment(assessmentsMap[a].assessorId,
                             submissionsMap[assessmentsMap[a].submissionId]))

\* C2 witness: an assessor was just refused while a submission of another
\* unit than the assessor's assignment exists.
C2_Witness ==
    /\ res = [op |-> "POST /api/assessments", status |-> 403]
    /\ \E s \in DOMAIN submissionsMap, i \in DOMAIN assignmentsMap :
           /\ RoleOf(assignmentsMap[i].assessorId) = "assessor"
           /\ assignmentsMap[i].traineeId = submissionsMap[s].traineeId
           /\ ~HasAssignment(assignmentsMap[i].assessorId, submissionsMap[s])

\* C3: a successful POST /assessments with status 'approved' adds, for every
\* user who is an internal verifier at that moment, a notification of type
\* 'verification' addressed to that user and linked to the new assessment;
\* with another status it adds no notification addressed to a verifier.
C3_ApprovedNotifiesInternalVerifiers ==
    [][\A caller \in UserIds, body \in AssessmentBodies :
          (PostAssessments(caller, body, 0) /\ res'.status = 201)
          => IF body.status = "approved"
             THEN \A u \in DOMAIN usersMap :
                      usersMap[u].role = "internal_verifier"
                      => \E n \in DOMAIN NewNotifications :
                             /\ NewNotifications[n].userId = usersMap[u].id
                             /\ NewNotifications[n].type = "verification"
                             /\ NewNotifications[n].linkedItemId = assessmentIdCounter
             ELSE \A n \in DOMAIN NewNotifications :
                      RoleOf(NewNotifications[n].userId)
                          \notin {"internal_verifier", "external_verifier"}]_vars

\* C3 witness: an approving assessment was just answered 201 with two
\* internal verifiers registered, each notified about it.
C3_Witness ==
    /\ res = [op |-> "POST /api/assessments", status |-> 201]
    /\ assessmentsMap # <<>>
    /\ assessmentsMap[Len(assessmentsMap)].status = "approved"
    /\ Cardinality(IdsWithRole(usersMap, "internal_verifier")) = 2
    /\ \A u \in IdsWithRole(usersMap, "internal_verifier") :
           \E n \in DOMAIN notificationsMap :
               /\ notificationsMap[n].userId = u
               /\ notificationsMap[n].type = "verification"
               /\ notificationsMap[n].linkedItemId = Len(assessmentsMap)

\* C5: POST /submissions by a trainee with valid submission data stores one
\* submission with status 'pending' whether or not an assignment exists; it
\* adds exactly one notification, of type 'submission' and addressed to the
\* assessor of the first-created assignment for the trainee and the unit,
\* when there is such an assignment, and no notification when there is none.
C5_SubmissionPendingAndNotifiesFirstAssignment ==
    [][\A caller \in UserIds, body \in SubmissionBodies :
          (PostSubmissions(caller, body, <<>>, 0) /\ ValidSubmissionData(body))
          => LET matches == {i \in DOMAIN assignmentsMap :
                                /\ assignmentsMap[i].traineeId = caller
                                /\ assignmentsMap[i].unitId = body.unitId}
                 first == CHOOSE i \in matches : \A j \in matches : i <= j
             IN  /\ Len(submissionsMap') = Len(submissionsMap) + 1
                 /\ SubSeq(submissionsMap', 1, Len(submissionsMap)) = submissionsMap
                 /\ submissionsMap'[Len(submissionsMap')].status = "pending"
                 /\ IF matches = {}
                    THEN NewNotifications = <<>>
                    ELSE /\ Len(NewNotifications) = 1
                         /\ NewNotifications[1].type = "submission"
                         /\ NewNotifications[1].userId = assignmentsMap[first].assessorId
                         /\ NewNotifications[1].linkedItemId = submissionIdCounter]_vars

\* C5 witness: a submission was just stored for a trainee and unit that two
\* assignments with different assessors cover, and the last notification
\* went to the assessor of the older one.
C5_Witness ==
    /\ res = [op |-> "POST /api/submissions", status |-> 201]
    /\ Len(assignmentsMap) = 2
    /\ assignmentsMap[1].assessorId # assignmentsMap[2].assessorId
    /\ submissionsMap # <<>>
    /\ \A i \in DOMAIN assignmentsMap :
           /\ assignmentsMap[i].traineeId = submissionsMap[Len(submissionsMap)].traineeId
           /\ assignmentsMap[i].unitId = submissionsMap[Len(submissionsMap)].unitId
    /\ notificationsMap # <<>>
    /\ notificationsMap[Len(notificationsMap)].type = "submission"
    /\ notificationsMap[Len(notificationsMap)].userId = assignmentsMap[1].assessorId

\* C6: a POST /assessments answered 201 stores exactly one assessment, sets
\* the submission's status to 'approved' for 'approved', 'rejected' for
\* 'rejected' and 'resubmit' otherwise, and adds exactly one notification of
\* type 'assessment', addressed to the submission's trainee and linked to
\* the new assessment.
C6_AssessmentEffects ==
    [][\A caller \in UserIds, body \in AssessmentBodies :
          (PostAssessments(caller, body, 0) /\ res'.status = 201)
          => /\ Len(assessmentsMap') = Len(assessmentsMap) + 1
             /\ SubSeq(assessmentsMap', 1, Len(assessmentsMap)) = assessmentsMap
             /\ submissionsMap'[body.submissionId].status =
                    (IF body.status = "approved" THEN "approved"
                     ELSE IF body.status = "rejected" THEN "rejected"
                     ELSE "resubmit")
             /\ Count(NewNotifications, LAMBDA n : n.type = "assessment") = 1
             /\ \A n \in DOMAIN NewNotifications :
                    NewNotifications[n].type = "assessment"
                    => /\ NewNotifications[n].userId =
                              submissionsMap[body.submissionId].traineeId
                       /\ NewNotifications[n].linkedItemId = assessmentIdCounter]_vars

\* C6 witness: an assessment asking for resubmission was just answered 201
\* and its submission stands at 'resubmit'.
C6_Witness ==
    /\ res = [op |-> "POST /api/assessments", status |-> 201]
    /\ assessmentsMap # <<>>
    /\ assessmentsMap[Len(assessmentsMap)].status = "resubmit"
    /\ submissionsMap[assessmentsMap[Len(assessmentsMap)].submissionId].status = "resubmit"
    /\ \E n \in DOMAIN notificationsMap :
           /\ notificationsMap[n].type = "assessment"
           /\ notificationsMap[n].linkedItemId = Len(assessmentsMap)

C4_Notified(caller, body) ==
    IF body.status = "confirmed" /\ RoleOf(caller) = "internal_verifier"
    THEN \A u \in DOMAIN usersMap :
             usersMap[u].role = "external_verifier"
             => \E n \in DOMAIN NewNotifications :
                    /\ NewNotifications[n].userId = usersMap[u].id
                    /\ NewNotifications[n].linkedItemId = verificationIdCounter
    ELSE \A n \in DOMAIN NewNotifications :
             RoleOf(NewNotifications[n].userId) # "external_verifier"

\* C4 as claimed: once a POST /verifications with status 'confirmed' made by
\* an internal verifier has completed, every external verifier has a
\* notification linked to the stored verification; a verification with
\* another status, or made by an external verifier, adds no notification
\* addressed to an external verifier.
C4_ConfirmedNotifiesExternalVerifiers ==
    [][\A caller \in UserIds, body \in VerificationBodies :
          PostVerifications(caller, body, 0) => C4_Notified(caller, body)]_vars

\* C4 for the requests answered 201 only (this much holds): the request
\* that breaks C4 is the one C8 is about, which stores the verification and
\* then answers 404.
C4_AnsweredConfirmedNotifiesExternalVerifiers ==
    [][\A caller \in UserIds, body \in VerificationBodies :
          (PostVerifications(caller, body, 0) /\ res'.status = 201)
          => C4_Notified(caller, body)]_vars

\* C7: a POST /verifications answered 201 adds exactly one notification
\* addressed to the assessor of the verified assessment, and one addressed
\* to the trainee of that assessment's submission exactly when the status
\* is 'rejected' (none otherwise).
C7_VerificationNotifiesAssessorAndTrainee ==
    [][\A caller \in UserIds, body \in VerificationBodies :
          (PostVerifications(caller, body, 0) /\ res'.status = 201)
          => LET assessment == assessmentsMap[body.assessmentId]
                 trainee == submissionsMap[assessment.submissionId].traineeId
             IN  /\ Count(NewNotifications,
                          LAMBDA n : n.userId = assessment.assessorId) = 1
                 /\ Count(NewNotifications, LAMBDA n : n.userId = trainee) =
                        (IF body.status = "rejected" THEN 1 ELSE 0)]_vars

\* C7 witness: a rejecting verification was just answered 201; the last two
\* notifications went to the assessor and to the trainee.
C7_Witness ==
    /\ res = [op |-> "POST /api/verifications", status |-> 201]
    /\ verificationsMap # <<>>
    /\ verificationsMap[Len(verificationsMap)].status = "rejected"
    /\ Len(notificationsMap) >= 2
    /\ RoleOf(notificationsMap[Len(notificationsMap) - 1].userId) = "assessor"
    /\ RoleOf(notificationsMap[Len(notificationsMap)].userId) = "trainee"
    /\ notificationsMap[Len(notificationsMap)].linkedItemId = Len(verificationsMap)

\* C8 as claimed: a POST /verifications naming an assessment that does not
\* exist answers 404 and stores no verification.
C8_MissingAssessmentStoresNothing ==
    [][\A caller \in UserIds, body \in VerificationBodies :
          (PostVerifications(caller, body, 0)
           /\ body.assessmentId \notin DOMAIN assessmentsMap)
          => /\ res' = [op |-> "POST /api/verifications", status |-> 404]
             /\ UNCHANGED verifications]_vars

\* C9 as claimed: when a createNotification call rejects after the handler
\* has stored its primary record, the handler still logs the activity and
\* answers 201.
C9_NotificationFailureSwallowed ==
    [][\A caller \in UserIds, failAt \in 1..MaxFailAt :
          /\ \A body \in FaultAssignmentBodies :
                 (PostAssignments(caller, body, failAt)
                  /\ Len(assignmentsMap') > Len(assignmentsMap))
                 => /\ res'.status = 201
                    /\ Len(activityLogsMap') = Len(activityLogsMap) + 1
          /\ \A body \in FaultSubmissionBodies :
                 (PostSubmissions(caller, body, <<>>, failAt)
                  /\ Len(submissionsMap') > Len(submissionsMap))
                 => /\ res'.status = 201
                    /\ Len(activityLogsMap') = Len(activityLogsMap) + 1
          /\ \A body \in FaultAssessmentBodies :
                 (PostAssessments(caller, body, failAt)
                  /\ Len(assessmentsMap') > Len(assessmentsMap))
                 => /\ res'.status = 201
                    /\ Len(activityLogsMap') = Len(activityLogsMap) + 1
          /\ \A body \in VerificationBodies :
                 (PostVerifications(caller, body, failAt)
                  /\ body.assessmentId \in DOMAIN assessmentsMap)
                 => /\ res'.status = 201
                    /\ Len(activityLogsMap') = Len(activityLogsMap) + 1]_vars

\* Whether the caller is the trainee, an assessor holding an assignment for
\* the trainee, or an admin.
C11_Permitted(caller, traineeId) ==
    \/ RoleOf(caller) = "trainee" /\ caller = traineeId
    \/ RoleOf(caller) = "admin"
    \/ /\ RoleOf(caller) = "assessor"
       /\ \E i \in DOMAIN assignmentsMap :
              /\ assignmentsMap[i].assessorId = caller
              /\ assignmentsMap[i].traineeId = traineeId

\* C11 as claimed: a GET /export-portfolio/{traineeId} by a caller who is
\* neither that trainee, nor an assessor assigned to that trainee, nor an
\* admin answers 403 and generates nothing.
C11_ExportOnlyForTraineeAssessorAdmin ==
    [][\A caller \in UserIds, traineeId \in UserIds :
          (GetExportPortfolio(caller, traineeId, 0) /\ ~C11_Permitted(caller, traineeId))
          => /\ res' = [op |-> "GET /api/export-portfolio/:traineeId", status |-> 403]
             /\ UNCHANGED store]_vars

\* C12 as claimed: every submission an assessor obtains through
\* GET /submissions, GET /submissions/:id or an exported portfolio has an
\* assignment of that assessor to the submission's trainee and unit.
C12_AssessorReadsOnlyAssignedUnits ==
    [][\A caller \in UserIds :
          (/\ RoleOf(caller) = "assessor"
           /\ \/ GetSubmissions(caller)
              \/ \E submissionId \in 1..(MaxSubmissions + 1) :
                     GetSubmissionsById(caller, submissionId)
              \/ \E traineeId \in UserIds : GetExportPortfolio(caller, traineeId, 0)
           /\ res'.status = 200)
          => \A i \in DOMAIN res'.submissions :
                 HasAssignment(caller, res'.submissions[i])]_vars

\* C13 as claimed, for the verifications of stored assessments: in every
\* reachable state no two verification records have the same assessmentId
\* and the same verifierId.
C13_OneVerificationPerVerifierAndAssessment ==
    \A i, j \in DOMAIN verificationsMap :
        (/\ i # j
         /\ verificationsMap[i].assessmentId \in DOMAIN assessmentsMap
         /\ verificationsMap[i].assessmentId = verificationsMap[j].assessmentId)
        => verificationsMap[i].verifierId # verificationsMap[j].verifierId

\* C14 as claimed, for the requests answered 201: a verification is recorded
\* only against an approved assessment, and one by an external verifier only
\* when a confirmed internal verification of that assessment is stored.
C14_InternalConfirmedBeforeExternal ==
    [][\A caller \in UserIds, body \in VerificationBodies :
          (PostVerifications(caller, body, 0) /\ res'.status = 201)
          => /\ getAssessment(body.assessmentId).status = "approved"
             /\ RoleOf(caller) = "external_verifier"
                => \E i \in DOMAIN verificationsMap :
                       /\ verificationsMap[i].assessmentId = body.assessmentId
                       /\ verificationsMap[i].verifierType = "internal"
                       /\ verificationsMap[i].status = "confirmed"]_vars

\* The ids of a collection are strictly increasing in creation order (and so
\* unique).
C15_Increasing(m) == \A i, j \in DOMAIN m : i < j => m[i].id < m[j].id

\* Every record of m is still in n, in its place and unchanged.
C15_Kept(m, n) == \A i \in DOMAIN m : i \in DOMAIN n /\ n[i] = m[i]

\* C15: under every interleaving of the concurrent handlers, the ids of each
\* collection are unique and strictly increasing in creation order, no step
\* overwrites or drops a stored record, and a create stores its record under
\* the id taken from the counter, also when the request body carries an id.
C15_IdsUniqueAndIncreasing ==
    /\ [](/\ C15_Increasing(usersMap) /\ C15_Increasing(assignmentsMap)
          /\ C15_Increasing(submissionsMap) /\ C15_Increasing(notificationsMap)
          /\ C15_Increasing(activityLogsMap))
    /\ [][/\ C15_Kept(usersMap, usersMap') /\ C15_Kept(assignmentsMap, assignmentsMap')
          /\ C15_Kept(submissionsMap, submissionsMap')
          /\ C15_Kept(notificationsMap, notificationsMap')
          /\ C15_Kept(activityLogsMap, activityLogsMap')
          /\ \A caller \in UserIds, body \in ConcurrentSubmissionBodies :
                 SubmissionsBegin(caller, body)
                 => /\ Len(submissionsMap') = Len(submissionsMap) + 1
                    /\ submissionsMap'[Len(submissionsMap')].id = submissionIdCounter
          /\ \A k \in 1..MaxInflight :
                 SubmissionsNotify(k)
                 => /\ Len(notificationsMap') = Len(notificationsMap) + 1
                    /\ notificationsMap'[Len(notificationsMap')].id
                           = notificationIdCounter]_vars

\* Two handlers are in flight at once: the first has created its
\* notification, the second has created its submission from a body that
\* carried id 1 and was given id 2.
C15_Witness ==
    /\ Len(inflight) = 2
    /\ inflight[1].pc = "createNotification"
    /\ inflight[2].pc = "createSubmission"
    /\ "id" \in DOMAIN inflight[2].submissionData
    /\ inflight[2].submissionData.id = 1
    /\ inflight[2].submission.id = 2
    /\ Len(submissionsMap) = 2

\* The mime types of the claim's allow-list: pdf, jpeg, png, mp4, docx.
C16_AllowList ==
    {"application/pdf", "image/jpeg", "image/png", "video/mp4",
     "application/vnd.openxmlformats-officedocument.wordprocessingml.document"}

\* C16: a POST /submissions whose upload contains a file of a type outside
\* the allow-list creates no submission, no submission file and no
\* notification; and no stored submission file has a type outside the list.
C16_DisallowedTypeCreatesNothing ==
    /\ [](\A i \in DOMAIN submissionFilesMap :
              submissionFilesMap[i].fileType \in C16_AllowList)
    /\ [][\A caller \in UserIds, body \in UploadSubmissionBodies,
             files \in UploadFileLists :
              (/\ PostSubmissions(caller, body, files, 0)
               /\ \E i \in DOMAIN files : files[i].fileType \notin C16_AllowList)
              => /\ UNCHANGED <<submissions, submissionFiles, notifications>>
                 /\ res'.status # 201]_vars

\* An upload of a PDF followed by a file of another type has just been
\* turned down for the type, after an earlier upload was stored.
C16_Witness ==
    /\ res = [op |-> "POST /api/submissions", status |-> 500,
              error |-> "Invalid file type"]
    /\ Len(submissionsMap) = 1
    /\ Len(submissionFilesMap) = 1

C18_SubmissionReferencesExistingTaskAndUnit ==
    \A i \in DOMAIN submissionsMap :
        /\ getUnit(submissionsMap[i].unitId).id # NoId
        /\ getTask(submissionsMap[i].taskId).id # NoId

C20_SelfOrAdminElseForbidden ==
    [][\A caller \in UserIds, userId \in TargetUserIds :
          (GetUsersById(caller, userId) \/ GetActivityLogsByUser(caller, userId))
          => res'.status =
                 IF caller # userId /\ RoleOf(caller) # "admin" THEN 403
                 ELSE IF userId \in DOMAIN usersMap THEN 200 ELSE 404]_vars

\* The part of C20 about GET /users/:id alone.
C20_UsersByIdSelfOrAdminElseForbidden ==
    [][\A caller \in UserIds, userId \in TargetUserIds :
          GetUsersById(caller, userId)
          => res'.status =
                 IF caller # userId /\ RoleOf(caller) # "admin" THEN 403
                 ELSE IF userId \in DOMAIN usersMap THEN 200 ELSE 404]_vars

\* The writing endpoints and the roles allowed to call them.
C21_AllowSet ==
    [r \in {"POST /api/units", "POST /api/tasks", "POST /api/assignments",
            "POST /api/users/deactivate/:id"} |-> {"admin"}]
    @@ [r \in {"POST /api/assessments"} |-> {"assessor"}]
    @@ [r \in {"POST /api/verifications"} |-> {"internal_verifier", "external_verifier"}]

\* The step answers a request of the caller to the route.
C21_Serves(caller, route) ==
    \/ Denied(caller, route)
    \/ route = "POST /api/units" /\ \E body \in UnitBodies : PostUnits(caller, body, 0)
    \/ route = "POST /api/tasks" /\ \E body \in TaskBodies : PostTasks(caller, body, 0)
    \/ route = "POST /api/assignments"
           /\ \E body \in ReverifyAssignmentBodies : PostAssignments(caller, body, 0)
    \/ route = "POST /api/submissions"
           /\ \E body \in ReverifySubmissionBodies : PostSubmissions(caller, body, <<>>, 0)
    \/ route = "POST /api/assessments"
           /\ \E body \in ReverifyAssessmentBodies : PostAssessments(caller, body, 0)
    \/ route = "POST /api/verifications"
           /\ \E body \in DeniedVerificationBodies : PostVerifications(caller, body, 0)
    \/ route = "POST /api/users/deactivate/:id"
           /\ \E userId \in {MaxUsers - 1} : PostUsersDeactivate(caller, userId, 0)

\* C21: a request without a session is answered 401 on every route, and a
\* request of a user whose role is not allowed on a writing route (anyone
\* but an admin on POST /units, /tasks, /assignments and /users/deactivate,
\* anyone but an assessor on POST /assessments, anyone but a verifier on
\* POST /verifications) is answered 403; either way the step leaves every
\* stored record, the activity log included, as it was.
C21_DeniedRequestsChangeNothing ==
    [][\A caller \in Callers, route \in Routes :
          (res'.op = route /\ C21_Serves(caller, route))
          => /\ RoleOf(caller) = "none"
                 => (res' = [op |-> route, status |-> 401] /\ UNCHANGED store)
             /\ (/\ RoleOf(caller) # "none"
                 /\ route \in DOMAIN C21_AllowSet
                 /\ RoleOf(caller) \notin C21_AllowSet[route])
                 => (res' = [op |-> route, status |-> 403] /\ UNCHANGED store)]_vars

\* C21 witness: an assessment was just refused with 403 while a trainee, an
\* assessor, an assignment and a submission the assessor may assess exist,
\* so the refused caller was not the assessor.
C21_Witness ==
    /\ res = [op |-> "POST /api/assessments", status |-> 403]
    /\ \E s \in DOMAIN submissionsMap, i \in DOMAIN assignmentsMap :
           HasAssignment(assignmentsMap[i].assessorId, submissionsMap[s])
    /\ RoleOf(MaxUsers - 1) \in {"internal_verifier", "external_verifier"}

\* The time from the submission with id s to its assessment with the
\* smallest id.
C22_FirstTurnaround(s) ==
    LET ids == {a \in DOMAIN assessmentsMap : assessmentsMap[a].submissionId = s}
        first == CHOOSE a \in ids : \A b \in ids : a <= b
    IN  assessmentsMap[first].assessmentDate - submissionsMap[s].submissionDate

RECURSIVE C22_Sum(_)
\* The sum of C22_FirstTurnaround over a set of submission ids.
C22_Sum(S) ==
    IF S = {} THEN 0
    ELSE LET s == CHOOSE x \in S : TRUE
         IN  C22_FirstTurnaround(s) + C22_Sum(S \ {s})

\* The ids of the trainee's submissions that have an assessment.
C22_Assessed(traineeId) ==
    {s \in DOMAIN submissionsMap :
        /\ submissionsMap[s].traineeId = traineeId
        /\ \E a \in DOMAIN assessmentsMap : assessmentsMap[a].submissionId = s}

\* C22: in the answer of GET /reports/trainee-performance each trainee's
\* averageTurnaround is the mean, over the trainee's submissions that have
\* an assessment, of the time from the submission to its first-created
\* assessment, and is 0 in a 200 answer when no submission of the trainee is
\* assessed; in the answer of GET /reports/assessor-activity an assessor
\* without assessments has averageTurnaround 0.
C22_AverageTurnaroundFromFirstAssessment ==
    [][/\ \A caller \in UserIds :
            GetReportsTraineePerformance(caller)
            => /\ res'.status = 200
               /\ \A i \in DOMAIN res'.report :
                      LET r == res'.report[i]
                          A == C22_Assessed(r.traineeId)
                      IN  IF A = {}
                          THEN r.averageTurnaround = Quotient(0, 1)
                          ELSE /\ r.averageTurnaround.den > 0
                               /\ r.averageTurnaround.num * Cardinality(A)
                                      = C22_Sum(A) * r.averageTurnaround.den
       /\ \A caller \in UserIds :
            GetReportsAssessorActivity(caller)
            => /\ res'.status = 200
               /\ \A i \in DOMAIN res'.report :
                      (\A a \in DOMAIN assessmentsMap :
                           assessmentsMap[a].assessorId # res'.report[i].assessorId)
                      => res'.report[i].averageTurnaround = Quotient(0, 1)]_vars

\* C22 witness: the trainee report was just answered for a trainee, one of
\* whose submissions has two assessments made at different times, the first
\* of them later than the submission.
C22_Witness ==
    /\ res.op = "GET /api/reports/trainee-performance"
    /\ \E i \in DOMAIN res.report, s \in DOMAIN submissionsMap :
           /\ submissionsMap[s].traineeId = res.report[i].traineeId
           /\ Len(getAssessmentsBySubmission(s)) = 2
           /\ getAssessmentsBySubmission(s)[1].assessmentDate
                  < getAssessmentsBySubmission(s)[2].assessmentDate
           /\ submissionsMap[s].submissionDate
                  < getAssessmentsBySubmission(s)[1].assessmentDate

\* C23: a notification is stored unread; a stored notification changes only
\* in a POST /notifications/:id/read of the user it is addressed to, which
\* answers 200 and sets isRead to true and nothing else; the same request
\* for a notification of another user answers 403 and for an id that is not
\* stored 404, both leaving the store as it was; and isRead never goes back
\* from true to false.
C23_NotificationReadOnlyByAddressee ==
    [][/\ Len(notificationsMap') >= Len(notificationsMap)
       /\ \A n \in DOMAIN notificationsMap' \ DOMAIN notificationsMap :
              notificationsMap'[n].isRead = FALSE
       /\ \A n \in DOMAIN notificationsMap :
              /\ notificationsMap[n].isRead => notificationsMap'[n].isRead
              /\ \/ notificationsMap'[n] = notificationsMap[n]
                 \/ /\ notificationsMap'[n] = [notificationsMap[n] EXCEPT !.isRead = TRUE]
                    /\ PostNotificationsRead(notificationsMap[n].userId, n)
                    /\ res' = [op |-> "POST /api/notifications/:id/read", status |-> 200]
       /\ \A caller \in UserIds, id \in NotificationIds :
              PostNotificationsRead(caller, id)
              => IF id \notin DOMAIN notificationsMap
                 THEN res'.status = 404 /\ UNCHANGED store
                 ELSE IF notificationsMap[id].userId # caller
                 THEN res'.status = 403 /\ UNCHANGED store
                 ELSE res'.status = 200 /\ notificationsMap'[id].isRead]_vars

\* C23 witness: a notification was just marked read while another one stays
\* unread.
C23_Witness ==
    /\ res = [op |-> "POST /api/notifications/:id/read", status |-> 200]
    /\ \E n, m \in DOMAIN notificationsMap :
           notificationsMap[n].isRead /\ ~notificationsMap[m].isRead

\* The record a was created after the record b: at a later time, or at the
\* same time with a larger id.
C25_Newer(a, b, f) == a[f] > b[f] \/ (a[f] = b[f] /\ a.id > b.id)

\* The sequence has its records by field f, largest first.
C25_Descending(s, f) == \A i, j \in DOMAIN s : i < j => s[i][f] >= s[j][f]

\* C25: the notifications GET /notifications answers with and the log
\* entries GET /activity-logs and GET /activity-logs/user/:id answer with are
\* newest first: of two records the one created later comes first, also when
\* both were created with the same timestamp.
C25_NewestFirst ==
    [][/\ \A caller \in UserIds :
            GetNotifications(caller)
            => \A i, j \in DOMAIN res'.notifications :
                   i < j => C25_Newer(res'.notifications[i], res'.notifications[j],
                                      "createdAt")
       /\ \A caller \in UserIds :
            (GetActivityLogs(caller)
                 \/ \E userId \in UserIds : GetActivityLogsByUser(caller, userId))
            => (res'.status = 200
                => \A i, j \in DOMAIN res'.logs :
                       i < j => C25_Newer(res'.logs[i], res'.logs[j], "timestamp"))]_vars

\* What holds of the order of the answers: createdAt and timestamp never
\* grow along them.
C25_DescendingTimestamps ==
    [][/\ \A caller \in UserIds :
            GetNotifications(caller) => C25_Descending(res'.notifications, "createdAt")
       /\ \A caller \in UserIds :
            (GetActivityLogs(caller)
                 \/ \E userId \in UserIds : GetActivityLogsByUser(caller, userId))
            => (res'.status = 200 => C25_Descending(res'.logs, "timestamp"))]_vars

\* The map n has every record of the map m, unchanged and where it was.
C24_Extends(m, n) == Len(n) >= Len(m) /\ \A i \in DOMAIN m : n[i] = m[i]

\* The map n has a record for every record of the map m, under the same id.
C24_Keeps(m, n) == Len(n) >= Len(m) /\ \A i \in DOMAIN m : n[i].id = m[i].id

\* C24: no step removes a stored record of any kind; activity-log entries,
\* submission files, assessments, verifications and assignments stay as
\* they were created; POST /verifications, also when it answers 404, leaves
\* every assessment and every submission as it was; and POST /assessments
\* changes no field of a submission other than its status.
C24_AppendOnly ==
    [][/\ C24_Keeps(usersMap, usersMap') /\ C24_Keeps(unitsMap, unitsMap')
       /\ C24_Keeps(tasksMap, tasksMap') /\ C24_Keeps(submissionsMap, submissionsMap')
       /\ C24_Keeps(notificationsMap, notificationsMap')
       /\ C24_Extends(activityLogsMap, activityLogsMap')
       /\ C24_Extends(submissionFilesMap, submissionFilesMap')
       /\ C24_Extends(assessmentsMap, assessmentsMap')
       /\ C24_Extends(verificationsMap, verificationsMap')
       /\ C24_Extends(assignmentsMap, assignmentsMap')
       /\ \A caller \in UserIds, body \in VerificationBodies :
              PostVerifications(caller, body, 0)
              => UNCHANGED <<assessmentsMap, submissionsMap>>
       /\ \A caller \in UserIds, body \in ReverifyAssessmentBodies :
              PostAssessments(caller, body, 0)
              => \A s \in DOMAIN submissionsMap :
                     submissionsMap'[s] =
                         [submissionsMap[s] EXCEPT !.status = submissionsMap'[s].status]]_vars

\* C24 witness: a verification was just stored for an assessed submission
\* that has a file, after the submission left 'pending'.
C24_Witness ==
    /\ res.op = "POST /api/verifications"
    /\ \E v \in DOMAIN verificationsMap, f \in DOMAIN submissionFilesMap :
           /\ verificationsMap[v].assessmentId \in DOMAIN assessmentsMap
           /\ assessmentsMap[verificationsMap[v].assessmentId].submissionId
                  = submissionFilesMap[f].submissionId
           /\ getSubmission(submissionFilesMap[f].submissionId).status # "pending"

\* C28: a stored submission, assessment or verification carries the id of
\* the user whose request created it, whatever traineeId, assessorId,
\* verifierId or verifierType the body of the request says; verifierType is
\* 'internal' for an internal verifier and 'external' for an external one.
C28_AttributedToCaller ==
    [][/\ \A caller \in UserIds, body \in ReverifySubmissionBodies, files \in AppendFileLists :
              (PostSubmissions(caller, body, files, 0) /\ res'.status = 201)
              => /\ Len(submissionsMap') = Len(submissionsMap) + 1
                 /\ submissionsMap'[Len(submissionsMap')].traineeId = caller
       /\ \A caller \in UserIds, body \in ReverifyAssessmentBodies :
              (PostAssessments(caller, body, 0) /\ res'.status = 201)
              => /\ Len(assessmentsMap') = Len(assessmentsMap) + 1
                 /\ assessmentsMap'[Len(assessmentsMap')].assessorId = caller
       /\ \A caller \in UserIds, body \in VerificationBodies :
              PostVerifications(caller, body, 0)
              => /\ Len(verificationsMap') = Len(verificationsMap) + 1
                 /\ verificationsMap'[Len(verificationsMap')].verifierId = caller
                 /\ verificationsMap'[Len(verificationsMap')].verifierType =
                        IF RoleOf(caller) = "internal_verifier"
                        THEN "internal" ELSE "external"]_vars

\* C28 witness: an external verifier's verification was just stored as
\* 'external' under the verifier's id, of an assessment and a submission
\* stored under their makers' ids, all three posted with user 1's id and
\* 'internal' in the body.
C28_Witness ==
    /\ res = [op |-> "POST /api/verifications", status |-> 201]
    /\ \E v \in DOMAIN verificationsMap :
           /\ verificationsMap[v].verifierType = "external"
           /\ RoleOf(verificationsMap[v].verifierId) = "external_verifier"
           /\ RoleOf(getAssessment(verificationsMap[v].assessmentId).assessorId)
                  = "assessor"
           /\ RoleOf(getSubmission(getAssessment(
                  verificationsMap[v].assessmentId).submissionId).traineeId) = "trainee"

\* C29: every stored submission's status is 'pending', 'approved',
\* 'resubmit' or 'rejected' ('reviewed' is never stored, and a status in the
\* body of POST /submissions is replaced by 'pending'); a submission that is
\* not 'pending' never becomes 'pending' again; and in every entry of the
\* trainee-performance and assessment-outcomes reports the approved,
\* rejected, resubmit and pending counts add up to the number of
\* submissions counted.
C29_StatusSetAndReportTotals ==
    /\ [](\A s \in DOMAIN submissionsMap :
             submissionsMap[s].status \in {"pending", "approved", "resubmit", "rejected"})
    /\ [][/\ \A s \in DOMAIN submissionsMap :
               submissionsMap[s].status # "pending" => submissionsMap'[s].status # "pending"
          /\ \A caller \in UserIds, body \in ReportSubmissionBodies :
               (PostSubmissions(caller, body, <<>>, 0) /\ res'.status = 201)
               => submissionsMap'[Len(submissionsMap')].status = "pending"
          /\ \A caller \in UserIds :
               GetReportsTraineePerformance(caller)
               => \A i \in DOMAIN res'.report :
                      res'.report[i].approvedCount + res'.report[i].rejectedCount
                          + res'.report[i].resubmitCount + res'.report[i].pendingCount
                      = res'.report[i].submissionsCount
          /\ \A caller \in UserIds :
               GetReportsAssessmentOutcomes(caller)
               => \A i \in DOMAIN res'.report :
                      res'.report[i].approvedCount + res'.report[i].rejectedCount
                          + res'.report[i].resubmitCount + res'.report[i].pendingCount
                      = res'.report[i].totalSubmissions]_vars

\* C29 witness: the outcomes report was just answered with a task that has
\* two submissions, one of them decided 'resubmit' and the other not.
C29_Witness ==
    /\ res.op = "GET /api/reports/assessment-outcomes"
    /\ \E i \in DOMAIN res.report :
           /\ res.report[i].totalSubmissions = 2
           /\ res.report[i].resubmitCount = 1
    /\ \E a \in DOMAIN assessmentsMap : assessmentsMap[a].status = "resubmit"

\* The submissions of the trainee, in the order of their ids.
C30_Own(traineeId) ==
    SelectSeq(submissionsMap, LAMBDA s : s.traineeId = traineeId)

\* C30: a trainee reads no other trainee's submissions.  For a caller with
\* role trainee, GET /submissions answers exactly the submissions whose
\* traineeId is the caller's id; GET /submissions/:id answers 403 without a
\* submission for a stored submission of someone else and the submission
\* itself for the caller's own; GET /export-portfolio/:traineeId answers 403,
\* changing nothing, for any id but the caller's and lists exactly the
\* caller's submissions for the caller's id; so every submission a response
\* to a trainee carries is the trainee's own.
C30_TraineeReadsOnlyOwnSubmissions ==
    [][\A caller \in UserIds :
          caller \in IdsWithRole(usersMap, "trainee") =>
              /\ (res'.op = "GET /api/submissions" /\ GetSubmissions(caller))
                 => /\ res'.status = 200
                    /\ res'.submissions = C30_Own(caller)
              /\ \A submissionId \in 1..(MaxSubmissions + 1) :
                     (/\ res'.op = "GET /api/submissions/:id"
                      /\ GetSubmissionsById(caller, submissionId))
                     => /\ (/\ submissionId \in DOMAIN submissionsMap
                            /\ submissionsMap[submissionId].traineeId # caller)
                           => /\ res'.status = 403
                              /\ "submissions" \notin DOMAIN res'
                        /\ res'.status = 200
                           => /\ res'.submissions = <<submissionsMap[submissionId]>>
                              /\ submissionsMap[submissionId].traineeId = caller
              /\ \A traineeId \in UserIds :
                     (/\ res'.op = "GET /api/export-portfolio/:traineeId"
                      /\ GetExportPortfolio(caller, traineeId, 0))
                     => /\ traineeId # caller
                           => /\ res'.status = 403
                              /\ "submissions" \notin DOMAIN res'
                              /\ store' = store
                        /\ res'.status = 200
                           => /\ traineeId = caller
                              /\ res'.submissions = C30_Own(caller)]_vars

\* C30 witness: while the admin and two trainees are the only accounts and
\* each trainee has a submission, a request for a submission by id was just
\* answered 403, which only a trainee asking for the other's submission gets.
C30_Witness ==
    /\ res.op = "GET /api/submissions/:id"
    /\ res.status = 403
    /\ userIdCounter = 4
    /\ C30_Own(2) # <<>>
    /\ C30_Own(3) # <<>>

\* The requests of the eight logging routes, each with the action name its
\* handler passes to logActivity.
C26_Requests ==
    [action : {"created_unit"}, body : UnitBodies]
    \cup [action : {"created_task"}, body : TaskBodies]
    \cup [action : {"created_assignment"}, body : ReverifyAssignmentBodies]
    \cup [action : {"created_submission"}, body : LogSubmissionBodies]
    \cup [action : {"created_assessment"},
          body : {b \in AssessmentBodies : b.status = "approved"}]
    \cup [action : {"created_verification"}, body : LogVerificationBodies]
    \cup [action : {"deactivated_user"}, body : {MaxUsers - 1, MaxUsers + 1}]
    \cup [action : {"exported_portfolio"}, body : UserIds]

\* The route of the request.
C26_Route(request) ==
    CASE request.action = "created_unit" -> "POST /api/units"
      [] request.action = "created_task" -> "POST /api/tasks"
      [] request.action = "created_assignment" -> "POST /api/assignments"
      [] request.action = "created_submission" -> "POST /api/submissions"
      [] request.action = "created_assessment" -> "POST /api/assessments"
      [] request.action = "created_verification" -> "POST /api/verifications"
      [] request.action = "deactivated_user" -> "POST /api/users/deactivate/:id"
      [] request.action = "exported_portfolio" -> "GET /api/export-portfolio/:traineeId"

\* The step is the handler of the request, run for the caller over a storage
\* that fails as failAt says.
C26_Run(caller, request, failAt) ==
    \/ request.action = "created_unit" /\ PostUnits(caller, request.body, failAt)
    \/ request.action = "created_task" /\ PostTasks(caller, request.body, failAt)
    \/ request.action = "created_assignment"
           /\ PostAssignments(caller, request.body, failAt)
    \/ request.action = "created_submission"
           /\ PostSubmissions(caller, request.body, <<>>, failAt)
    \/ request.action = "created_assessment"
           /\ PostAssessments(caller, request.body, failAt)
    \/ request.action = "created_verification"
           /\ PostVerifications(caller, request.body, failAt)
    \/ request.action = "deactivated_user"
           /\ PostUsersDeactivate(caller, request.body, failAt)
    \/ request.action = "exported_portfolio"
           /\ GetExportPortfolio(caller, request.body, failAt)

\* The step appended exactly one activity log entry, of the user and action.
C26_LoggedOnce(userId, action) ==
    /\ Len(activityLogsMap') = Len(activityLogsMap) + 1
    /\ \A i \in DOMAIN activityLogsMap : activityLogsMap'[i] = activityLogsMap[i]
    /\ activityLogsMap'[Len(activityLogsMap')].userId = userId
    /\ activityLogsMap'[Len(activityLogsMap')].action = action

\* The statuses a response carries.
C26_Statuses == {200, 201, 400, 401, 403, 404, 500}

\* What logging promises of one step, over a storage that may fail in the
\* given ways: a handler that answers 200 or 201 while the log write works
\* appended exactly one entry of the caller and the operation; a handler
\* whose log write fails appended nothing, answers what it answers when the
\* write works and writes the same other collections; a handler that answers
\* an error, and a request turned away, appended nothing.
C26_Contract(faults) ==
    /\ \A caller \in UserIds, request \in C26_Requests :
           res'.op = C26_Route(request) =>
               /\ (C26_Run(caller, request, 0) /\ res'.status \in {200, 201})
                  => C26_LoggedOnce(caller, request.action)
               /\ C26_Run(caller, request, LogWriteFails)
                  => /\ UNCHANGED activityLogs
                     /\ \A status \in C26_Statuses :
                            res'.status = status
                            => ENABLED (/\ C26_Run(caller, request, 0)
                                        /\ res'.status = status)
                     /\ (users' # users)
                            <=> ENABLED (C26_Run(caller, request, 0) /\ users' # users)
                     /\ (units' # units)
                            <=> ENABLED (C26_Run(caller, request, 0) /\ units' # units)
                     /\ (tasks' # tasks)
                            <=> ENABLED (C26_Run(caller, request, 0) /\ tasks' # tasks)
                     /\ (assignments' # assignments)
                            <=> ENABLED (/\ C26_Run(caller, request, 0)
                                         /\ assignments' # assignments)
                     /\ (submissions' # submissions)
                            <=> ENABLED (/\ C26_Run(caller, request, 0)
                                         /\ submissions' # submissions)
                     /\ (assessments' # assessments)
                            <=> ENABLED (/\ C26_Run(caller, request, 0)
                                         /\ assessments' # assessments)
                     /\ (verifications' # verifications)
                            <=> ENABLED (/\ C26_Run(caller, request, 0)
                                         /\ verifications' # verifications)
                     /\ (notifications' # notifications)
                            <=> ENABLED (/\ C26_Run(caller, request, 0)
                                         /\ notifications' # notifications)
               /\ \A failAt \in faults :
                      (C26_Run(caller, request, failAt) /\ res'.status \notin {200, 201})
                      => UNCHANGED activityLogs
    /\ \A caller \in Callers, route \in LogRoutes :
           (res'.op = route /\ Denied(caller, route)) => UNCHANGED activityLogs

\* C26: every successful mutating operation (create unit, task, assignment,
\* submission, assessment, verification; deactivate user; export portfolio)
\* appends exactly one activity log entry whose userId is the caller and
\* whose action names the operation; a failing log write changes neither the
\* response nor the other writes; an operation that fails, whatever storage
\* call made it fail, writes no log entry.
C26_LoggedExactlyWhenSuccessful == [][C26_Contract(SubmissionLogFaults)]_vars

\* What holds of logging: the same, for operations that fail before their
\* handler reaches logActivity (a rejected createNotification among them).
C26_LoggedUnlessFailedAfterwards ==
    [][C26_Contract(SubmissionLogFaults \ {FilesReadFails})]_vars

\* The stored assessments of the submission, in the order of their ids.
C27_AssessmentsOf(submissionId) ==
    SelectSeq(assessmentsMap, LAMBDA a : a.submissionId = submissionId)

====
